---- MODULE Spec2Model ----
(***************************************************************************)
(* A model of the generative-stories simulator: the world model            *)
(* (EnvironmentStateManager), the story agents, the Overseer's chapter     *)
(* bookkeeping and the step loop of SimulationEngine.                      *)
(*                                                                         *)
(* Numbers.  The program computes with floats; the model uses fixed point: *)
(*   relationship scores        in thousandths  (1.0  = 1000)              *)
(*   sentiment values           in hundredths   (0.8  = 80)                *)
(*   probabilities, random()    in hundredths   (0.3  = 30)                *)
(*   energy_level               in twentieths   (0.05 = 1, 1.0 = 20)       *)
(* so that (positive - negative) * 0.1, a value in thousandths, is the     *)
(* difference of the two sentiment values in hundredths.                   *)
(***************************************************************************)
EXTENDS Integers, Sequences, FiniteSets, TLC

\* ---------------------------------------------------------------- bounds
MaxTime == 2
MaxQueue == 2
MaxDelay == 2

\* ------------------------------------------------------------- universes
\* Scheduled events are dicts; the model tells them apart by a tag.
Events == {"e1", "e2"}

\* Names a configuration gives to locations, and a name that no location has.
Locs == {"A", "B", "C", "D"}
NoLoc == "nowhere"

\* None where the program holds a location name.
None == "None"

\* Agent objects (identity), and the names they may carry.
AgentIds == {1, 2, 3}

\* ------------------------------------------------- encodings of constants
\* last_interaction_time = None
NoTime == -1
\* energy_level = 1.0, in twentieths
FullEnergy == 20
\* config.get('simulation', {}).get('max_time_steps', 100)
DefaultMaxTimeSteps == 100

VARIABLES
    \* EnvironmentStateManager
    locations,          \* keys of self.locations
    location_graph,     \* self.location_graph: name -> list of names
    connected_locations,\* Location.connected_locations, per location
    current_agents,     \* Location.current_agents, per location
    current_time,       \* self.current_time
    scheduled_events,   \* self.scheduled_events: sequence of [time, event]
    \* SimulationEngine
    story_agents,       \* self.story_agents: sequence of agent objects
    agents,             \* the fields of each StoryAgent object
    \* what the last call of process_scheduled_events saw and returned
    drain,
    \* the last call of move_agent / move_to_location and its result
    moved,
    \* the last call of find_path_between_locations and its result
    path_query,
    \* SimulationEngine: the step loop
    pc,                 \* where run_full_simulation / run_simulation_step is
    current_step,       \* self.current_step
    max_time_steps,     \* self.max_time_steps
    simulation_running, \* self.simulation_running
    run_outcome,        \* how run_full_simulation left its loop
    interactions_this_step, \* self.interactions_this_step
    events_this_step,   \* self.events_this_step
    agents_copy,        \* process_agent_interactions: agents still to visit
    interacted_agents,  \* process_agent_interactions: names already paired
    phase_log,          \* the phases the step in progress has performed
    \* the last call of should_initiate_interaction and its result
    decision,
    \* NarratorAgent
    narrator,           \* steps_since_last_event, event_history (the
                        \* execution times of the events), metrics
    \* OverseerAgent
    chapters,           \* self.chapters
    story_metadata,     \* self.story_metadata
    current_chapter_content, \* self.current_chapter_content
    character_arcs,     \* self.character_arcs, per character name
    character_relationship_changes, \* per pair of character names
    \* run_simulation_step: the last chapter_decision the Overseer returned
    chapter_decision,
    \* the text generation provider and the memory backend
    collaborators,      \* "up", or "flaky" when their calls may fail
    failed_calls,       \* the calls that failed in the step in progress
    \* two runs from one configuration under one seed, when compared
    runs,
    \* MemoryManager, when its operations are followed on their own (a step
    \* of the engine is followed by the outcome of its memory calls only)
    memory_store,       \* self.memory_store: memories and memory_counter
    \* the last call of an AgentMemoryInterface method and its result
    recall,
    \* the agents the last process_agent_actions called decide_action for,
    \* in the order of the calls
    actions_decided,
    \* the last call of get_nearby_locations and its result
    nearby_query,
    \* EnvironmentStateManager: the logs of the world
    interaction_history,\* self.interaction_history
    event_history       \* self.event_history

queueVars == <<current_time, scheduled_events>>
placeVars == <<locations, current_agents, story_agents, agents>>
graphVars == <<location_graph, connected_locations>>
memoryVars == <<memory_store, recall>>
fixedVars == <<collaborators, runs, memoryVars, actions_decided,
              nearby_query, interaction_history,
                   event_history>>
faultVars == <<fixedVars, failed_calls>>
stepVars == <<pc, current_step, max_time_steps, simulation_running,
              run_outcome, interactions_this_step, events_this_step,
              agents_copy, interacted_agents, phase_log, faultVars>>
overseerVars == <<chapters, story_metadata, current_chapter_content,
                  character_arcs, character_relationship_changes,
                  chapter_decision>>
engineVars == <<stepVars, decision, narrator, overseerVars>>
vars == <<locations, location_graph, connected_locations, current_agents,
          current_time, scheduled_events, story_agents, agents,
          drain, moved, path_query, pc, current_step, max_time_steps,
          simulation_running, run_outcome, interactions_this_step,
          events_this_step, agents_copy, interacted_agents, phase_log,
          decision, narrator, chapters, story_metadata,
          current_chapter_content, character_arcs,
          character_relationship_changes, chapter_decision,
          collaborators, failed_calls, runs, memory_store, recall,
          actions_decided, nearby_query, interaction_history,
                   event_history>>

\* ------------------------------------------------------------- helpers
Max(a, b) == IF a >= b THEN a ELSE b
Min(a, b) == IF a <= b THEN a ELSE b

\* dict.get(key, default)
get(d, key, default) == IF key \in DOMAIN d THEN d[key] ELSE default

\* d[key] = value
put(d, key, value) ==
    [k \in (DOMAIN d) \cup {key} |-> IF k = key THEN value ELSE d[k]]

\* ------------------------------------------------- the objects when made
\* A metric of the narrator is a fraction.
Fraction(num, den) == [num |-> num, den |-> den]

NoDecision == [called |-> FALSE, agent |-> 0, energy_level |-> 0,
               last_interaction_time |-> NoTime, current_time |-> 0,
               others_here |-> 0, result |-> FALSE, target |-> 0,
               failure |-> ""]

\* SimulationEngine.__init__ with a configuration that names no step limit
EngineConstructed ==
    /\ pc = "idle"
    /\ current_step = 0
    /\ max_time_steps = DefaultMaxTimeSteps
    /\ simulation_running = FALSE
    /\ run_outcome = "not_started"
    /\ interactions_this_step = <<>>
    /\ events_this_step = <<>>
    /\ agents_copy = <<>>
    /\ interacted_agents = {}
    /\ phase_log = <<>>
    /\ decision = NoDecision

\* The provider answers and the memory backend stores: no call fails.
CollaboratorsUp ==
    /\ collaborators = "up"
    /\ failed_calls = {}
    /\ runs = <<>>

\* NarratorAgent.__init__
NarratorConstructed ==
    narrator = [steps_since_last_event |-> 0,
                event_history |-> <<>>,
                interaction_density |-> Fraction(0, 1),
                emotional_variety |-> Fraction(0, 1),
                relationship_velocity |-> Fraction(0, 1),
                stagnation_score |-> Fraction(0, 1)]

\* No memory call has been made yet.
NoRecall == [op |-> "none", agent_id |-> None, content |-> None,
             limit |-> 0, raised |-> FALSE, returned |-> <<>>,
             memory_id |-> None,
             summary |-> [total_memories |-> 0, memory_types |-> <<>>]]

\* MemoryManager.__init__ and SimpleMemoryStore.__init__ with no memory
\* file on disk
MemoryManagerConstructed ==
    /\ memory_store = [memories |-> <<>>, memory_counter |-> 0]
    /\ recall = NoRecall

\* No chapter decision has been asked for yet.
NoChapterDecision ==
    [asked |-> FALSE, should_end |-> FALSE, has_reasons |-> FALSE,
     urgency |-> "", ending_score |-> 0, interactions_count |-> 0]

\* The content of a chapter that starts at a step: the lists interactions
\* and events are kept by their lengths, and last_interactions holds what
\* the last three interactions of the chapter say to the chapter decision.
chapter_content(start_step) ==
    [interactions |-> 0, events |-> 0, plot_points |-> <<>>,
     emotional_beats |-> <<>>, last_interactions |-> <<>>,
     start_step |-> start_step]

\* OverseerAgent.__init__; major_events is kept by its last three entries,
\* the ones detect_ending_readiness reads.
OverseerConstructed ==
    /\ chapters = <<>>
    /\ story_metadata = [current_chapter |-> 1, total_interactions |-> 0,
                         major_events |-> <<>>]
    /\ current_chapter_content = chapter_content(0)
    /\ character_arcs = <<>>
    /\ character_relationship_changes = <<>>
    /\ chapter_decision = NoChapterDecision

\* ----------------------------------------------------------------------
\* EnvironmentStateManager: the scheduled-event queue
\* ----------------------------------------------------------------------

\* The mutation of the due test: an event due exactly now is kept.
IsDueStrict(scheduled_time, now) == scheduled_time < now

\* environment_manager.py:120  if scheduled_time <= self.current_time
IsDue(scheduled_time, now) == scheduled_time <= now

\* The loop of process_scheduled_events over the queue, in queue order.
RECURSIVE drain_loop(_, _, _, _)
drain_loop(queue, now, events_to_process, remaining_events) ==
    IF queue = <<>>
    THEN [events_to_process |-> events_to_process,
          remaining_events |-> remaining_events]
    ELSE LET entry == Head(queue) IN
         IF IsDue(entry.time, now)
         THEN drain_loop(Tail(queue), now,
                         Append(events_to_process, entry.event), remaining_events)
         ELSE drain_loop(Tail(queue), now,
                         events_to_process, Append(remaining_events, entry))

process_scheduled_events(queue, now) == drain_loop(queue, now, <<>>, <<>>)

\* list.sort(key=lambda x: x[0]) is a stable sort: insertion sort, each entry
\* placed after the entries whose time is not larger.
RECURSIVE insert_by_time(_, _)
insert_by_time(sorted, entry) ==
    IF sorted = <<>> THEN <<entry>>
    ELSE IF Head(sorted).time <= entry.time
         THEN <<Head(sorted)>> \o insert_by_time(Tail(sorted), entry)
         ELSE <<entry>> \o sorted

RECURSIVE sort_by_time(_)
sort_by_time(queue) ==
    IF queue = <<>> THEN <<>>
    ELSE insert_by_time(sort_by_time(SubSeq(queue, 1, Len(queue) - 1)),
                        queue[Len(queue)])

\* The mutation of schedule_event: the entry is appended and the queue is
\* not sorted.
schedule_event_unsorted(queue, now, event, time_delay) ==
    Append(queue, [time |-> now + time_delay, event |-> event])

\* schedule_event(event, time_delay), lines 108-112
schedule_event(queue, now, event, time_delay) ==
    sort_by_time(Append(queue, [time |-> now + time_delay, event |-> event]))

NoDrain == [before |-> <<>>, now |-> 0, returned |-> <<>>, left |-> <<>>,
            calls |-> 0]

\* what the queue operations leave alone
scheduleOther == <<placeVars, graphVars, moved, path_query, engineVars>>

NoMove == [op |-> "none", agent |-> 0, result |-> FALSE]

NoPath == [found |-> FALSE, path |-> <<>>]
NoQuery == [asked |-> FALSE, start |-> None, end |-> None, answer |-> NoPath]

NoNearby == [asked |-> FALSE, location_name |-> None, max_distance |-> 0,
             answer |-> {}]

ScheduleInit ==
    /\ MemoryManagerConstructed
    /\ actions_decided = <<>>
    /\ nearby_query = NoNearby
    /\ interaction_history = <<>>
    /\ event_history = <<>>
    /\ EngineConstructed
    /\ NarratorConstructed
    /\ CollaboratorsUp
    /\ OverseerConstructed
    /\ current_time = 0
    /\ scheduled_events = <<>>
    /\ drain = NoDrain
    /\ locations = {}
    /\ current_agents = <<>>
    /\ story_agents = <<>>
    /\ agents = <<>>
    /\ moved = NoMove
    /\ location_graph = <<>>
    /\ connected_locations = <<>>
    /\ path_query = NoQuery

\* schedule_event(event, time_delay)
ScheduleEvent ==
    /\ Len(scheduled_events) < MaxQueue
    /\ \E event \in Events, time_delay \in 0..MaxDelay :
          scheduled_events' =
              schedule_event(scheduled_events, current_time, event, time_delay)
    /\ UNCHANGED <<current_time, drain>>
    /\ UNCHANGED scheduleOther

\* process_scheduled_events(), as phase 1 of a step calls it
ProcessScheduledEvents ==
    /\ LET r == process_scheduled_events(scheduled_events, current_time) IN
          /\ scheduled_events' = r.remaining_events
          /\ drain' = [before |-> scheduled_events, now |-> current_time,
                       returned |-> r.events_to_process,
                       left |-> r.remaining_events, calls |-> 1]
    /\ UNCHANGED current_time
    /\ UNCHANGED scheduleOther

\* advance_time(1): the clock moves, then the queue is drained and the
\* drained events are dropped (the return value is not used).
AdvanceTime ==
    /\ current_time < MaxTime
    /\ current_time' = current_time + 1
    /\ scheduled_events' =
          process_scheduled_events(scheduled_events, current_time + 1).remaining_events
    /\ UNCHANGED drain
    /\ UNCHANGED scheduleOther

ScheduleNext == ScheduleEvent \/ ProcessScheduledEvents \/ AdvanceTime

SpecSchedule == ScheduleInit /\ [][ScheduleNext]_vars

\* ----------------------------------------------------------------------
\* C2: process_scheduled_events returns exactly the queued events with
\* fire_time <= current_time, in queue order, and leaves in the queue
\* exactly the entries with fire_time > current_time, unchanged and in
\* their previous order.
DrainPartitions ==
    drain.calls = 1 =>
        LET due  == SelectSeq(drain.before, LAMBDA x : x.time <= drain.now)
            rest == SelectSeq(drain.before, LAMBDA x : x.time > drain.now)
        IN  /\ Len(drain.returned) = Len(due)
            /\ \A i \in 1..Len(due) : drain.returned[i] = due[i].event
            /\ drain.left = rest

\* A drain that split a queue holding both due and not-yet-due entries.
DrainPartitionsWitness ==
    /\ drain.calls = 1
    /\ drain.returned # <<>>
    /\ drain.left # <<>>
    /\ \E i \in 1..Len(drain.before) : drain.before[i].time = drain.now
\* ----------------------------------------------------------------------
\* EnvironmentStateManager and StoryAgent: where the agents are
\* ----------------------------------------------------------------------

\* StoryAgent.__init__
new_agent(name, personality_traits, starting_location) ==
    [name |-> name,
     personality_traits |-> personality_traits,
     location |-> starting_location,
     current_mood |-> "neutral",
     stress_level |-> 0,
     energy_level |-> FullEnergy,
     last_interaction_time |-> NoTime,
     interaction_count |-> 0,
     relationships |-> <<>>]

\* Location.add_agent / Location.remove_agent: current_agents is a list that
\* add_agent keeps free of duplicates, modelled as a set.
add_agent(ca, location, agent) == [ca EXCEPT ![location] = @ \cup {agent}]
remove_agent(ca, location, agent) == [ca EXCEPT ![location] = @ \ {agent}]

\* EnvironmentStateManager.move_agent(agent, from_location, to_location)
move_agent(locs, ca, ags, agent, from_location, to_location) ==
    LET removed == IF from_location # None /\ from_location \in locs
                   THEN remove_agent(ca, from_location, agent)
                   ELSE ca
    IN IF to_location \in locs
       THEN [current_agents |-> add_agent(removed, to_location, agent),
             agents |-> [ags EXCEPT ![agent].location = to_location],
             result |-> TRUE]
       ELSE [current_agents |-> removed, agents |-> ags, result |-> FALSE]

\* StoryAgent.move_to_location(new_location, environment)
move_to_location(locs, ca, ags, agent, new_location) ==
    LET old_location == ags[agent].location
        removed == IF old_location \in locs
                   THEN remove_agent(ca, old_location, agent)
                   ELSE ca
    IN [current_agents |-> IF new_location \in locs
                           THEN add_agent(removed, new_location, agent)
                           ELSE removed,
        agents |-> [ags EXCEPT ![agent].location = new_location],
        result |-> TRUE]

\* The locations and agents of the configuration the placement operations
\* are exercised on.
PlaceLocs == {"A", "B", "C"}
PlaceAgents == <<1, 2>>

RECURSIVE place_all(_, _, _, _)
\* initialize_simulation, lines 63-79: each agent is appended to story_agents
\* and placed with move_agent(agent, None, agent.location).
place_all(locs, ca, ags, todo) ==
    IF todo = <<>> THEN [current_agents |-> ca, agents |-> ags]
    ELSE LET m == move_agent(locs, ca, ags, Head(todo), None,
                             ags[Head(todo)].location)
         IN place_all(locs, m.current_agents, m.agents, Tail(todo))

agent_name(a) == IF a = 1 THEN "n1" ELSE IF a = 2 THEN "n2" ELSE "n3"

PlaceInit ==
    /\ MemoryManagerConstructed
    /\ actions_decided = <<>>
    /\ nearby_query = NoNearby
    /\ interaction_history = <<>>
    /\ event_history = <<>>
    /\ EngineConstructed
    /\ NarratorConstructed
    /\ CollaboratorsUp
    /\ OverseerConstructed
    /\ locations = PlaceLocs
    /\ story_agents = PlaceAgents
    /\ \E start \in [{1, 2} -> PlaceLocs] :
          LET made == [a \in {1, 2} |-> new_agent(agent_name(a), {}, start[a])]
              placed == place_all(PlaceLocs, [l \in PlaceLocs |-> {}], made,
                                  PlaceAgents)
          IN /\ current_agents = placed.current_agents
             /\ agents = placed.agents
    /\ moved = NoMove
    /\ location_graph = [l \in PlaceLocs |-> <<>>]
    /\ connected_locations = [l \in PlaceLocs |-> <<>>]
    /\ path_query = NoQuery
    /\ current_time = 0
    /\ scheduled_events = <<>>
    /\ drain = NoDrain

placeOther == <<queueVars, graphVars, drain, path_query, engineVars>>

\* environment.move_agent(agent, agent.location, to_location): the caller
\* names the agent's present location as from_location, and any name,
\* known to the world or not, as the destination.
MoveAgent ==
    /\ \E agent \in DOMAIN agents, to_location \in PlaceLocs \cup {NoLoc} :
          LET m == move_agent(locations, current_agents, agents, agent,
                              agents[agent].location, to_location)
          IN /\ current_agents' = m.current_agents
             /\ agents' = m.agents
             /\ moved' = [op |-> "move_agent", agent |-> agent,
                          result |-> m.result]
    /\ UNCHANGED <<locations, story_agents>>
    /\ UNCHANGED placeOther

\* agent.move_to_location(new_location, environment)
MoveToLocation ==
    /\ \E agent \in DOMAIN agents, new_location \in PlaceLocs \cup {NoLoc} :
          LET m == move_to_location(locations, current_agents, agents, agent,
                                    new_location)
          IN /\ current_agents' = m.current_agents
             /\ agents' = m.agents
             /\ moved' = [op |-> "move_to_location", agent |-> agent,
                          result |-> m.result]
    /\ UNCHANGED <<locations, story_agents>>
    /\ UNCHANGED placeOther

PlaceNext == MoveAgent \/ MoveToLocation

SpecPlacement == PlaceInit /\ [][PlaceNext]_vars

\* The locations whose current_agents holds the agent.
Holders(agent) == {l \in locations : agent \in current_agents[l]}

\* ----------------------------------------------------------------------
\* C1: view consistency: every agent of story_agents is in the
\* current_agents of exactly one location, and that location's name is the
\* agent's own location field.
ViewConsistent ==
    \A i \in 1..Len(story_agents) :
        Holders(story_agents[i]) = {agents[story_agents[i]].location}

\* ----------------------------------------------------------------------
\* C10: a move_agent call that returns failure changes nothing: neither a
\* location's current_agents nor an agent's location field.
FailedMoveChangesNothing ==
    [][(moved'.op = "move_agent" /\ ~moved'.result)
          => UNCHANGED <<current_agents, agents>>]_vars

\* ----------------------------------------------------------------------
\* EnvironmentStateManager: the location graph
\* ----------------------------------------------------------------------
MaxEdges == 6
MaxOneWay == 1

InSeq(x, seq) == \E i \in 1..Len(seq) : seq[i] = x

\* connect_locations(location1_name, location2_name, bidirectional): the
\* new adjacency lists (location_graph and connected_locations receive the
\* same appends).
connect_locations(locs, graph, l1, l2, bidirectional) ==
    IF l1 \in locs /\ l2 \in locs
    THEN LET g1 == IF ~InSeq(l2, graph[l1])
                   THEN [graph EXCEPT ![l1] = Append(@, l2)]
                   ELSE graph
         IN IF bidirectional /\ ~InSeq(l1, g1[l2])
            THEN [g1 EXCEPT ![l2] = Append(@, l1)]
            ELSE g1
    ELSE graph

\* The neighbour scan of a depth-first search: the frontier is a stack, and
\* the scan returns early only when the end is the last neighbour.
RECURSIVE scan_neighbors_depth_first(_, _, _, _, _)
scan_neighbors_depth_first(neighbors, end, path, queue, visited) ==
    IF neighbors = <<>>
    THEN [found |-> FALSE, path |-> <<>>, queue |-> queue, visited |-> visited]
    ELSE LET neighbor == Head(neighbors) IN
         IF neighbor = end /\ Len(neighbors) = 1
         THEN [found |-> TRUE, path |-> Append(path, neighbor),
               queue |-> queue, visited |-> visited]
         ELSE IF neighbor \notin visited
              THEN scan_neighbors_depth_first(Tail(neighbors), end, path,
                        <<[node |-> neighbor, path |-> Append(path, neighbor)]>>
                            \o queue,
                        visited \cup {neighbor})
              ELSE scan_neighbors_depth_first(Tail(neighbors), end, path,
                                              queue, visited)

\* find_path_between_locations, lines 201-207: the loop over the neighbours
\* of the node taken from the queue.
RECURSIVE scan_neighbors(_, _, _, _, _)
scan_neighbors(neighbors, end, path, queue, visited) ==
    IF neighbors = <<>>
    THEN [found |-> FALSE, path |-> <<>>, queue |-> queue, visited |-> visited]
    ELSE LET neighbor == Head(neighbors) IN
         IF neighbor = end
         THEN [found |-> TRUE, path |-> Append(path, neighbor),
               queue |-> queue, visited |-> visited]
         ELSE IF neighbor \notin visited
              THEN scan_neighbors(Tail(neighbors), end, path,
                        Append(queue, [node |-> neighbor,
                                       path |-> Append(path, neighbor)]),
                        visited \cup {neighbor})
              ELSE scan_neighbors(Tail(neighbors), end, path, queue, visited)

\* find_path_between_locations, lines 198-209: the loop over the queue.
RECURSIVE bfs_loop(_, _, _, _)
bfs_loop(graph, end, queue, visited) ==
    IF queue = <<>> THEN NoPath
    ELSE LET current == Head(queue)
             r == scan_neighbors(graph[current.node], end, current.path,
                                 Tail(queue), visited)
         IN IF r.found THEN [found |-> TRUE, path |-> r.path]
            ELSE bfs_loop(graph, end, r.queue, r.visited)

\* find_path_between_locations(start, end); None is NoPath
find_path_between_locations(graph, start, end) ==
    IF start \notin DOMAIN graph \/ end \notin DOMAIN graph THEN NoPath
    ELSE IF start = end THEN [found |-> TRUE, path |-> <<start>>]
    ELSE bfs_loop(graph, end, <<[node |-> start, path |-> <<start>>]>>, {start})

RECURSIVE total_edges(_, _)
total_edges(graph, names) ==
    IF names = {} THEN 0
    ELSE LET n == CHOOSE x \in names : TRUE
         IN Len(graph[n]) + total_edges(graph, names \ {n})

\* The world after initialize_simulation has added the locations and before
\* it connects any.
GraphInit ==
    /\ MemoryManagerConstructed
    /\ actions_decided = <<>>
    /\ nearby_query = NoNearby
    /\ interaction_history = <<>>
    /\ event_history = <<>>
    /\ EngineConstructed
    /\ NarratorConstructed
    /\ CollaboratorsUp
    /\ OverseerConstructed
    /\ locations = Locs
    /\ location_graph = [l \in Locs |-> <<>>]
    /\ connected_locations = [l \in Locs |-> <<>>]
    /\ current_agents = [l \in Locs |-> {}]
    /\ path_query = NoQuery
    /\ story_agents = <<>>
    /\ agents = <<>>
    /\ current_time = 0
    /\ scheduled_events = <<>>
    /\ drain = NoDrain
    /\ moved = NoMove

graphOther == <<locations, current_agents, story_agents, agents, queueVars,
                drain, moved, engineVars>>

\* The edges that have no edge back, and the loops.
one_way_edges(graph) ==
    {e \in (DOMAIN graph) \X (DOMAIN graph) :
        /\ InSeq(e[2], graph[e[1]])
        /\ (e[1] = e[2] \/ ~InSeq(e[1], graph[e[2]]))}

\* environment.connect_locations(l1, l2, bidirectional), for graphs of at
\* most MaxEdges edges of which at most MaxOneWay go one way only.  The
\* graph is built first and then asked: a query reads the graph and changes
\* nothing of it, so every graph is asked every question this way.
ConnectLocations ==
    /\ ~path_query.asked
    /\ ~nearby_query.asked
    /\ \E l1 \in Locs, l2 \in Locs, bidirectional \in BOOLEAN :
          /\ location_graph' =
                connect_locations(locations, location_graph, l1, l2, bidirectional)
          /\ total_edges(location_graph', locations) <= MaxEdges
          /\ Cardinality(one_way_edges(location_graph')) <= MaxOneWay
          /\ connected_locations' =
                connect_locations(locations, connected_locations, l1, l2,
                                  bidirectional)
    /\ UNCHANGED path_query
    /\ UNCHANGED graphOther

\* environment.find_path_between_locations(start, end)
FindPath ==
    /\ \E start \in Locs, end \in Locs :
          path_query' = [asked |-> TRUE, start |-> start, end |-> end,
                         answer |-> find_path_between_locations(location_graph,
                                                                start, end)]
    /\ UNCHANGED graphVars
    /\ UNCHANGED graphOther

GraphNext == ConnectLocations \/ FindPath

SpecGraph == GraphInit /\ [][GraphNext]_vars

\* The locations reachable from `from` over at most k edges of the graph.
RECURSIVE Within(_, _, _)
Within(graph, from, k) ==
    IF k = 0 THEN {from}
    ELSE LET near == Within(graph, from, k - 1)
         IN near \cup {l \in DOMAIN graph :
                          \E m \in near : InSeq(l, graph[m])}

\* The number of edges of a shortest path, or -1 when there is none.
Distance(graph, from, to) ==
    IF to \notin Within(graph, from, Cardinality(DOMAIN graph)) THEN -1
    ELSE CHOOSE k \in 0..Cardinality(DOMAIN graph) :
            /\ to \in Within(graph, from, k)
            /\ \A j \in 0..(k - 1) : to \notin Within(graph, from, j)

\* get_nearby_locations, lines 218-230: the loop over the distances from
\* distance on; nearby holds the locations found and current_level those
\* found at the distance before.
RECURSIVE nearby_levels(_, _, _, _, _, _)
nearby_levels(graph, origin, nearby, current_level, distance, max_distance) ==
    IF distance > max_distance THEN nearby
    ELSE LET next_level ==
                 {neighbor \in UNION {{graph[loc][i] : i \in 1..Len(graph[loc])} :
                                         loc \in current_level \cap DOMAIN graph} :
                     neighbor \notin nearby /\ neighbor # origin}
         IN nearby_levels(graph, origin, nearby \cup next_level, next_level,
                          distance + 1, max_distance)

\* The mutation of the range: the loop starts one distance late.
get_nearby_locations_one_short(graph, location_name, max_distance) ==
    IF location_name \notin DOMAIN graph THEN {}
    ELSE nearby_levels(graph, location_name, {}, {location_name}, 2,
                       max_distance)

\* get_nearby_locations(location_name, max_distance); the list returned is
\* kept as the set it is made from.
get_nearby_locations(graph, location_name, max_distance) ==
    IF location_name \notin DOMAIN graph THEN {}
    ELSE nearby_levels(graph, location_name, {}, {location_name}, 1,
                       max_distance)

\* The largest max_distance get_nearby_locations is asked with.
MaxDistance == 3

\* environment.get_nearby_locations(location_name, max_distance), asked
\* once of the graph that has been built: the call reads the graph and
\* changes nothing of it.
GetNearbyLocations ==
    /\ ~nearby_query.asked
    /\ \E location_name \in Locs \cup {NoLoc},
          max_distance \in 0..MaxDistance :
          nearby_query' =
              [asked |-> TRUE, location_name |-> location_name,
               max_distance |-> max_distance,
               answer |-> get_nearby_locations(location_graph, location_name,
                                               max_distance)]
    /\ UNCHANGED <<graphVars, path_query, locations, current_agents,
                   story_agents, agents, queueVars, drain, moved, pc,
                   current_step, max_time_steps, simulation_running,
                   run_outcome, interactions_this_step, events_this_step,
                   agents_copy, interacted_agents, decision, phase_log,
                   narrator, overseerVars, failed_calls, collaborators,
                   runs, memoryVars, actions_decided, interaction_history,
                   event_history>>

NearbyNext == ConnectLocations \/ GetNearbyLocations

SpecNearby == GraphInit /\ [][NearbyNext]_vars

\* ----------------------------------------------------------------------
\* The world as it is built: add_location and connect_locations called in
\* any order, from the world EnvironmentStateManager() constructs.
\* ----------------------------------------------------------------------

\* The names the locations of a configuration bear.
LocationNames == {"A", "B", "C"}

\* add_location(name, description, location_type): a new Location, with
\* no connections and nobody present, takes the place under the name, and
\* location_graph[name] is an empty list.
add_location(locs, graph, connected, ca, name) ==
    [locations |-> locs \cup {name},
     location_graph |->
         [l \in locs \cup {name} |-> IF l = name THEN <<>> ELSE graph[l]],
     connected_locations |->
         [l \in locs \cup {name} |-> IF l = name THEN <<>> ELSE connected[l]],
     current_agents |->
         [l \in locs \cup {name} |-> IF l = name THEN {} ELSE ca[l]]]

\* The world EnvironmentStateManager() constructs: no location yet.
LocationsInit ==
    /\ MemoryManagerConstructed
    /\ actions_decided = <<>>
    /\ nearby_query = NoNearby
    /\ interaction_history = <<>>
    /\ event_history = <<>>
    /\ EngineConstructed
    /\ NarratorConstructed
    /\ CollaboratorsUp
    /\ OverseerConstructed
    /\ locations = {}
    /\ location_graph = <<>>
    /\ connected_locations = <<>>
    /\ current_agents = <<>>
    /\ path_query = NoQuery
    /\ story_agents = <<>>
    /\ agents = <<>>
    /\ current_time = 0
    /\ scheduled_events = <<>>
    /\ drain = NoDrain
    /\ moved = NoMove

\* environment.add_location(name, ...), for a name new or not.
AddLocation ==
    /\ \E name \in LocationNames :
       \E r \in {add_location(locations, location_graph, connected_locations,
                              current_agents, name)} :
          /\ locations' = r.locations
          /\ location_graph' = r.location_graph
          /\ connected_locations' = r.connected_locations
          /\ current_agents' = r.current_agents
    /\ UNCHANGED <<story_agents, agents, queueVars, drain, moved, engineVars,
                   path_query>>

\* environment.connect_locations(l1, l2), bidirectional left at its
\* default True, for names the world has or has not.
ConnectBothWays ==
    /\ \E l1 \in LocationNames, l2 \in LocationNames :
          /\ location_graph' =
                connect_locations(locations, location_graph, l1, l2, TRUE)
          /\ connected_locations' =
                connect_locations(locations, connected_locations, l1, l2, TRUE)
    /\ UNCHANGED <<locations, current_agents, story_agents, agents, queueVars,
                   drain, moved, engineVars, path_query>>

LocationsNext == AddLocation \/ ConnectBothWays

SpecLocations == LocationsInit /\ [][LocationsNext]_vars

\* ----------------------------------------------------------------------
\* C8: for known locations start and end, find_path_between_locations
\* returns a path from start to end along edges of the graph with the
\* least possible number of edges, and returns no path exactly when end
\* cannot be reached from start.
PathIsShortest ==
    path_query.asked =>
        LET d == Distance(location_graph, path_query.start, path_query.end)
            p == path_query.answer.path
        IN /\ path_query.answer.found <=> d >= 0
           /\ path_query.answer.found =>
                 /\ p[1] = path_query.start
                 /\ p[Len(p)] = path_query.end
                 /\ \A i \in 1..(Len(p) - 1) : InSeq(p[i + 1], location_graph[p[i]])
                 /\ Len(p) - 1 = d

\* On the line A - B - C - D the path from A to D is A, B, C, D.
PathIsShortestWitness ==
    /\ location_graph = [l \in Locs |->
                            IF l = "A" THEN <<"B">>
                            ELSE IF l = "B" THEN <<"A", "C">>
                            ELSE IF l = "C" THEN <<"B", "D">>
                            ELSE <<"C">>]
    /\ path_query.asked
    /\ path_query.start = "A"
    /\ path_query.end = "D"
    /\ path_query.answer = [found |-> TRUE, path |-> <<"A", "B", "C", "D">>]

\* ----------------------------------------------------------------------
\* OverseerAgent: the chapters
\* ----------------------------------------------------------------------
MaxChapterSteps == 2
MaxObserved == 1
MaxChapters == 2

worldVars == <<queueVars, placeVars, graphVars, drain, moved, path_query>>
stepOther == <<pc, max_time_steps, simulation_running, run_outcome,
               interactions_this_step, events_this_step, agents_copy,
               interacted_agents, phase_log, faultVars>>

\* The keywords _analyze_interaction_significance looks for in the content
\* of an interaction, by the score each adds (in hundredths); the content
\* of an interaction is kept as the set of keywords it holds.
HighKeywords == {"love", "hate", "betrayal"}
MediumKeywords == {"angry", "sad"}
LowKeywords == {"like", "think"}
RelationshipKeywords == {"friend", "trust"}
PlotKeywords == {"plan", "truth"}
ResolutionKeywords == {"resolved", "peace"}

\* _analyze_interaction_significance(interaction_data), for a content of at
\* most 100 characters and two participants; scores in hundredths.
analyze_interaction_significance(interaction_data) ==
    LET content == interaction_data.content
        raw == 30 * Cardinality(content \cap HighKeywords)
               + 20 * Cardinality(content \cap MediumKeywords)
               + 10 * Cardinality(content \cap LowKeywords)
               + 20 * Cardinality(content \cap RelationshipKeywords)
               + 15 * Cardinality(content \cap PlotKeywords)
               + (IF get(interaction_data.sentiment, "emotional_intensity", 0) > 70
                  THEN 20 ELSE 0)
    IN [significance_score |-> Min(raw, 100),
        is_significant |-> raw > 40,
        emotional_impact |->
            IF content \cap HighKeywords # {} THEN 80
            ELSE IF content \cap MediumKeywords # {} THEN 60
            ELSE IF content \cap LowKeywords # {} THEN 40
            ELSE 0]

\* The arc observe_interaction and track_character_development make for a
\* character they have not seen: character_growth is kept by its length
\* and key_moments by the times and significances of the moments it holds;
\* last_relationship_count
\* and last_mood are the values arc.get gives while the keys are missing.
new_arc ==
    [interactions |-> 0, character_growth |-> 0, key_moments |-> {},
     last_relationship_count |-> 0, last_mood |-> None]

\* last three of a list
last_three(seq) == SubSeq(seq, Max(1, Len(seq) - 2), Len(seq))

\* observe_interaction, lines 64-95: the arcs of the participants
RECURSIVE observe_participants(_, _, _, _)
observe_participants(arcs, interaction_data, significance, i) ==
    IF i > Len(interaction_data.participants) THEN arcs
    ELSE LET participant == interaction_data.participants[i]
             arc == get(arcs, participant, new_arc)
             seen == [arc EXCEPT
                         !.interactions = @ + 1,
                         !.key_moments =
                             IF significance.is_significant
                             THEN @ \cup {[time |-> interaction_data.time,
                                           significance |->
                                               significance.significance_score]}
                             ELSE @]
         IN observe_participants(put(arcs, participant, seen),
                                 interaction_data, significance, i + 1)

\* The plot points observe_interaction appends: one for each participant
\* of a significant interaction whose score is above 0.7.
plot_points_of(interaction_data, significance) ==
    IF significance.is_significant /\ significance.significance_score > 70
    THEN [i \in 1..Len(interaction_data.participants) |->
             [step |-> interaction_data.time,
              significance |-> significance.significance_score]]
    ELSE <<>>

\* _track_relationship_changes, for two participants: the significant
\* moments of the pair are kept by their steps and significances.
track_relationship_changes(changes, interaction_data, significance) ==
    IF Len(interaction_data.participants) < 2 THEN changes
    ELSE LET relationship_key == {interaction_data.participants[1],
                                  interaction_data.participants[2]}
             rel_data == get(changes, relationship_key,
                             [interaction_count |-> 0,
                              significant_moments |-> {}])
         IN put(changes, relationship_key,
                [rel_data EXCEPT
                    !.interaction_count = @ + 1,
                    !.significant_moments =
                        IF significance.is_significant
                        THEN @ \cup {[step |-> interaction_data.time,
                                      significance |->
                                          significance.significance_score]}
                        ELSE @])

\* observe_interaction(interaction_data): the interaction joins the current
\* chapter's content (a list, of which the model keeps the length and what
\* the last three interactions hold) and the story's total; the arcs, the
\* plot points, the relationship changes and the emotional beats follow
\* its significance.
observe_interaction(meta, content, arcs, changes, interaction_data) ==
    LET significance == analyze_interaction_significance(interaction_data)
    IN [story_metadata |-> [meta EXCEPT !.total_interactions = @ + 1],
        current_chapter_content |->
            [content EXCEPT
                !.interactions = @ + 1,
                !.last_interactions =
                    last_three(Append(@,
                        [content |-> interaction_data.content,
                         sentiment |-> interaction_data.sentiment])),
                !.plot_points =
                    @ \o plot_points_of(interaction_data, significance),
                !.emotional_beats =
                    IF significance.emotional_impact > 60
                    THEN Append(@, [step |-> interaction_data.time,
                                    emotional_intensity |->
                                        significance.emotional_impact])
                    ELSE @],
        character_arcs |->
            observe_participants(arcs, interaction_data, significance, 1),
        character_relationship_changes |->
            track_relationship_changes(changes, interaction_data,
                                       significance)]

\* The type -> weight table of _analyze_event_significance, in hundredths
type_significance(event_type) ==
    CASE event_type = "character_introduction" -> 80
      [] event_type = "conflict_resolution" -> 80
      [] event_type = "information_reveal" -> 70
      [] event_type = "relationship_catalyst" -> 60
      [] event_type = "environmental_pressure" -> 40
      [] OTHER -> 30

\* _analyze_event_significance(event_data): significant_keywords is the
\* number of the significant keywords the description holds.
analyze_event_significance(event_data) ==
    LET raw == type_significance(event_data.type)
               + (IF event_data.affected_agents > 2 THEN 20
                  ELSE IF event_data.affected_agents = 0 THEN -10 ELSE 0)
               + 15 * event_data.significant_keywords
    IN [significance_score |-> Min(raw, 100), is_major |-> raw > 60]

\* observe_event(event_data): the event joins the current chapter's
\* content; a major event joins major_events and the plot points.
observe_event(meta, content, event_data) ==
    LET significance == analyze_event_significance(event_data)
    IN [story_metadata |->
            IF significance.is_major
            THEN [meta EXCEPT !.major_events =
                     last_three(Append(@, [description |->
                                              event_data.description]))]
            ELSE meta,
        current_chapter_content |->
            [content EXCEPT
                !.events = @ + 1,
                !.plot_points =
                    IF significance.is_major
                    THEN Append(@, [step |-> event_data.execution_time,
                                    significance |->
                                        significance.significance_score])
                    ELSE @]]

\* track_character_development(agent, interaction_data): a new
\* relationship and a changed mood are growth.
track_character_development(arcs, agent) ==
    LET arc == get(arcs, agent.name, new_arc)
        current_relationships == Cardinality(DOMAIN agent.relationships)
        formed == current_relationships > arc.last_relationship_count
        mood_changed == arc.last_mood # None /\ arc.last_mood # agent.current_mood
    IN put(arcs, agent.name,
           [arc EXCEPT
               !.character_growth = @ + (IF formed THEN 1 ELSE 0)
                                      + (IF mood_changed THEN 1 ELSE 0),
               !.last_relationship_count = current_relationships,
               !.last_mood = agent.current_mood])

\* The mutation of _start_new_chapter: the next chapter starts one step late.
start_new_chapter_next_step(meta, step) ==
    [story_metadata |-> [meta EXCEPT !.current_chapter = @ + 1],
     current_chapter_content |-> chapter_content(step + 1)]

\* _start_new_chapter(current_step)
start_new_chapter(meta, step) ==
    [story_metadata |-> [meta EXCEPT !.current_chapter = @ + 1],
     current_chapter_content |-> chapter_content(step)]

\* The mutation of the early return: empty content becomes a chapter too.
synthesize_chapter_writes_empty(chs, meta, content, step) ==
    LET chapter == [number |-> meta.current_chapter,
                    start_step |-> content.start_step,
                    end_step |-> step,
                    interactions |-> content.interactions,
                    events |-> content.events]
        started == start_new_chapter(meta, step)
    IN [chapters |-> Append(chs, chapter),
        story_metadata |-> started.story_metadata,
        current_chapter_content |-> started.current_chapter_content]

\* synthesize_chapter(current_step): no chapter from empty content;
\* otherwise the content becomes a chapter and a new chapter starts.
synthesize_chapter(chs, meta, content, step) ==
    IF content.interactions = 0 /\ content.events = 0
    THEN [chapters |-> chs, story_metadata |-> meta,
          current_chapter_content |-> content]
    ELSE LET chapter == [number |-> meta.current_chapter,
                         start_step |-> content.start_step,
                         end_step |-> step,
                         interactions |-> content.interactions,
                         events |-> content.events]
             started == start_new_chapter(meta, step)
         IN [chapters |-> Append(chs, chapter),
             story_metadata |-> started.story_metadata,
             current_chapter_content |-> started.current_chapter_content]

\* An Overseer just made, in an engine just made, for an empty world.
ChaptersInit ==
    /\ MemoryManagerConstructed
    /\ actions_decided = <<>>
    /\ nearby_query = NoNearby
    /\ interaction_history = <<>>
    /\ event_history = <<>>
    /\ EngineConstructed
    /\ NarratorConstructed
    /\ CollaboratorsUp
    /\ OverseerConstructed
    /\ current_time = 0
    /\ scheduled_events = <<>>
    /\ drain = NoDrain
    /\ locations = {}
    /\ current_agents = <<>>
    /\ story_agents = <<>>
    /\ agents = <<>>
    /\ moved = NoMove
    /\ location_graph = <<>>
    /\ connected_locations = <<>>
    /\ path_query = NoQuery

chaptersOther == <<worldVars, stepOther, decision, narrator>>

\* run_simulation_step, line 89: the step index the engine hands to the
\* Overseer only grows.
CountStep ==
    /\ current_step < MaxChapterSteps
    /\ current_step' = current_step + 1
    /\ UNCHANGED overseerVars
    /\ UNCHANGED chaptersOther

\* overseer.observe_interaction(interaction)
ObserveInteraction ==
    /\ current_chapter_content.interactions < MaxObserved
    /\ LET o == observe_interaction(story_metadata, current_chapter_content,
                                    character_arcs,
                                    character_relationship_changes,
                                    [participants |-> <<>>, content |-> {},
                                     sentiment |-> <<>>,
                                     time |-> current_step])
       IN /\ story_metadata' = o.story_metadata
          /\ current_chapter_content' = o.current_chapter_content
          /\ character_arcs' = o.character_arcs
          /\ character_relationship_changes' =
                 o.character_relationship_changes
    /\ UNCHANGED <<chapters, current_step, chapter_decision>>
    /\ UNCHANGED chaptersOther

\* overseer.observe_event(event)
ObserveEvent ==
    /\ current_chapter_content.events < MaxObserved
    /\ LET o == observe_event(story_metadata, current_chapter_content,
                              [type |-> "general", affected_agents |-> 0,
                               significant_keywords |-> 0,
                               description |-> "",
                               execution_time |-> current_step])
       IN /\ story_metadata' = o.story_metadata
          /\ current_chapter_content' = o.current_chapter_content
    /\ UNCHANGED <<chapters, current_step, character_arcs,
                   character_relationship_changes, chapter_decision>>
    /\ UNCHANGED chaptersOther

\* overseer.synthesize_chapter(self.current_step)
SynthesizeChapter ==
    /\ Len(chapters) < MaxChapters
    /\ LET r == synthesize_chapter(chapters, story_metadata,
                                   current_chapter_content, current_step)
       IN /\ chapters' = r.chapters
          /\ story_metadata' = r.story_metadata
          /\ current_chapter_content' = r.current_chapter_content
    /\ UNCHANGED <<current_step, character_arcs,
                   character_relationship_changes, chapter_decision>>
    /\ UNCHANGED chaptersOther

ChaptersNext ==
    CountStep \/ ObserveInteraction \/ ObserveEvent \/ SynthesizeChapter

SpecChapters == ChaptersInit /\ [][ChaptersNext]_vars

\* ----------------------------------------------------------------------
\* C4: the chapters are numbered 1, 2, 3, ...; the first starts at step 0;
\* each has start_step <= end_step; and each chapter ends at the step at
\* which the next one starts.
ChaptersPartition ==
    /\ \A i \in 1..Len(chapters) :
          /\ chapters[i].number = i
          /\ chapters[i].start_step <= chapters[i].end_step
    /\ (chapters # <<>> => chapters[1].start_step = 0)
    /\ \A i \in 1..(Len(chapters) - 1) :
          chapters[i].end_step = chapters[i + 1].start_step

\* Two chapters, the first closed after step 0 and the second spanning steps.
ChaptersPartitionWitness ==
    /\ Len(chapters) >= 2
    /\ chapters[1].end_step > 0
    /\ chapters[2].start_step < chapters[2].end_step

\* ----------------------------------------------------------------------
\* StoryAgent: the interaction policy, and the engine's interaction phase
\* ----------------------------------------------------------------------

\* The values random.random() is drawn from, in hundredths: one in each
\* interval the base probabilities 0.2, 0.3, 0.4 and 0.5 cut.
RandomDraws == {0, 25, 35, 45, 99}

\* The values random.uniform(-0.3, 0.3) is drawn from, in thousandths: the
\* two ends of the interval.
Noise == {-300, 300}

\* The personality_traits a configuration or a profile gives.
TraitSets == {{}, {"outgoing"}, {"shy"}, {"social", "introverted"}}

\* What the collaborators of one interaction do. raised names the call that
\* raises, the generation of the content in initiate_interaction or of the
\* response in respond_to_interaction, if one does. Otherwise sentiment is
\* what json.loads makes of the sentiment reply: a dict that may lack keys,
\* with values nothing has validated (numeric says they are numbers); the
\* dict without keys stands for a reply of other keys only.
SentimentReplies ==
    {[raised |-> "", numeric |-> TRUE,
      sentiment |-> [k \in {"positive_sentiment", "negative_sentiment"} |->
                        IF k = "positive_sentiment" THEN 80 ELSE 10]],
     [raised |-> "", numeric |-> TRUE,
      sentiment |-> [k \in {"positive_sentiment", "negative_sentiment"} |->
                        IF k = "positive_sentiment" THEN 0 ELSE 1200]],
     [raised |-> "", numeric |-> TRUE, sentiment |-> <<>>],
     [raised |-> "", numeric |-> FALSE, sentiment |-> <<>>],
     [raised |-> "content", numeric |-> TRUE, sentiment |-> <<>>],
     [raised |-> "response", numeric |-> TRUE, sentiment |-> <<>>]}

\* The replies an interaction can meet: a call of it raises only when the
\* collaborators are flaky.
Replies ==
    IF collaborators = "flaky" THEN SentimentReplies
    ELSE {reply \in SentimentReplies : reply.raised = ""}

\* should_initiate_interaction, lines 63-69: base_probability in hundredths
base_probability(personality_traits) ==
    30 + (IF "outgoing" \in personality_traits \/ "social" \in personality_traits
          THEN 20 ELSE 0)
       - (IF "shy" \in personality_traits \/ "introverted" \in personality_traits
          THEN 10 ELSE 0)

\* The mutation of the energy test: the floor is 0.2 instead of 0.3.
energy_allows_low_floor(energy_level) == ~(energy_level < 4)

\* story_agent.py:56  if self.energy_level < 0.3: return False
energy_allows(energy_level) == ~(energy_level < 6)

\* StoryAgent.should_initiate_interaction(other_agents, current_time), with
\* draw the value of random.random().  A last_interaction_time of None or 0
\* is false in the first test.
should_initiate_interaction(ags, self, other_agents, time, draw) ==
    LET me == ags[self]
        same_location_agents ==
            {i \in 1..Len(other_agents) :
                ags[other_agents[i]].location = me.location}
    IN IF /\ me.last_interaction_time # NoTime
          /\ me.last_interaction_time # 0
          /\ time - me.last_interaction_time < 2
       THEN FALSE
       ELSE IF ~energy_allows(me.energy_level) THEN FALSE
       ELSE IF same_location_agents = {} THEN FALSE
       ELSE draw < base_probability(me.personality_traits)

\* choose_interaction_target, lines 82-98: the loop over available_agents
\* from position i on; noise[i] is the value of random.uniform for the i-th.
\* 0 is None.
RECURSIVE choose_loop(_, _, _, _, _, _, _)
choose_loop(ags, self, available_agents, noise, i, best_target, best_score) ==
    IF i > Len(available_agents) THEN best_target
    ELSE LET agent == available_agents[i] IN
         IF ags[agent].name = ags[self].name
         THEN choose_loop(ags, self, available_agents, noise, i + 1,
                          best_target, best_score)
         ELSE LET relationship_score ==
                      get(ags[self].relationships, ags[agent].name, 0)
                  score == relationship_score + noise[i]
                           + (IF ags[agent].last_interaction_time = NoTime
                              THEN 200 ELSE 0)
              IN IF score > best_score
                 THEN choose_loop(ags, self, available_agents, noise, i + 1,
                                  agent, score)
                 ELSE choose_loop(ags, self, available_agents, noise, i + 1,
                                  best_target, best_score)

\* StoryAgent.choose_interaction_target(available_agents)
choose_interaction_target(ags, self, available_agents, noise) ==
    IF available_agents = <<>> THEN 0
    ELSE choose_loop(ags, self, available_agents, noise, 1, 0, -2000)

\* StoryAgent.update_relationship(other_agent_name, interaction_quality):
\* interaction_quality is in hundredths, so interaction_quality * 0.1 in
\* thousandths is the same number.
update_relationship(relationships, other_agent_name, interaction_quality) ==
    LET current_score == get(relationships, other_agent_name, 0)
        change == interaction_quality
        new_score == Max(-1000, Min(1000, current_score + change))
    IN put(relationships, other_agent_name, new_score)

\* The mutation of the relationship change: the negative sentiment is added.
relationship_change_sum(sentiment) ==
    get(sentiment, "positive_sentiment", 50)
        + get(sentiment, "negative_sentiment", 30)

\* simulation_engine.py:223  sentiment.get('positive_sentiment', 0.5)
\*                             - sentiment.get('negative_sentiment', 0.3)
relationship_change(sentiment) ==
    get(sentiment, "positive_sentiment", 50)
        - get(sentiment, "negative_sentiment", 30)

\* initiate_interaction / respond_to_interaction: the interaction tracking
track_interaction(ags, agent, time) ==
    [ags EXCEPT ![agent].last_interaction_time = time,
                ![agent].interaction_count = @ + 1]

\* The mutation of the except clause: the interaction data of a failed
\* interaction is returned as if it had succeeded.
process_agent_interaction_keeps_failed(ags, arcs, initiator, target, step, reply) ==
    LET started == track_interaction(ags, initiator, step)
        tracked == track_interaction(started, target, step)
        interaction_data ==
            [initiator |-> ags[initiator].name,
             target |-> ags[target].name,
             location |-> ags[initiator].location,
             time |-> step,
             participants |-> <<ags[initiator].name, ags[target].name>>,
             content |-> {},
             sentiment |-> reply.sentiment]
        failed(after, failure) ==
            [ok |-> TRUE, failure |-> failure, agents |-> after,
             character_arcs |-> arcs, interaction |-> interaction_data]
    IN IF reply.raised = "content" THEN failed(ags, "content")
       ELSE IF reply.raised = "response" THEN failed(started, "response")
       ELSE IF ~reply.numeric THEN failed(tracked, "sentiment")
       ELSE LET change == relationship_change(reply.sentiment)
                first == [tracked EXCEPT ![initiator].relationships =
                             update_relationship(@, tracked[target].name, change)]
                both == [first EXCEPT ![target].relationships =
                             update_relationship(@, first[initiator].name, change)]
            IN [ok |-> TRUE, failure |-> "", agents |-> both,
                character_arcs |->
                    track_character_development(
                        track_character_development(arcs, both[initiator]),
                        both[target]),
                interaction |-> interaction_data]

\* SimulationEngine.process_agent_interaction(initiator, target): the
\* initiator tracks the interaction once its content is made and the target
\* once its response is made; a reply whose values are not numbers raises
\* in the subtraction. The except clause returns None (ok FALSE) for
\* whatever was raised, and the relationships stay as they were.
process_agent_interaction(ags, arcs, initiator, target, step, reply) ==
    LET started == track_interaction(ags, initiator, step)
        tracked == track_interaction(started, target, step)
        interaction_data ==
            [initiator |-> ags[initiator].name,
             target |-> ags[target].name,
             location |-> ags[initiator].location,
             time |-> step,
             participants |-> <<ags[initiator].name, ags[target].name>>,
             content |-> {},
             sentiment |-> reply.sentiment]
        failed(after, failure) ==
            [ok |-> FALSE, failure |-> failure, agents |-> after,
             character_arcs |-> arcs, interaction |-> interaction_data]
    IN IF reply.raised = "content" THEN failed(ags, "content")
       ELSE IF reply.raised = "response" THEN failed(started, "response")
       ELSE IF ~reply.numeric THEN failed(tracked, "sentiment")
       ELSE LET change == relationship_change(reply.sentiment)
                first == [tracked EXCEPT ![initiator].relationships =
                             update_relationship(@, tracked[target].name, change)]
                both == [first EXCEPT ![target].relationships =
                             update_relationship(@, first[initiator].name, change)]
            IN [ok |-> TRUE, failure |-> "", agents |-> both,
                character_arcs |->
                    track_character_development(
                        track_character_development(arcs, both[initiator]),
                        both[target]),
                interaction |-> interaction_data]

\* The mutation of the phase order: the agents' states are updated before
\* the solo actions.
next_phase_update_first(phase) ==
    CASE phase = "events" -> "interactions"
      [] phase = "interactions" -> "update"
      [] phase = "update" -> "actions"
      [] phase = "actions" -> "narrator"
      [] phase = "narrator" -> "introduction"
      [] phase = "introduction" -> "overseer"
      [] phase = "overseer" -> "chapter"
      [] phase = "chapter" -> "ending"
      [] phase = "ending" -> "advance"
      [] phase = "advance" -> "loop"

\* run_simulation_step, lines 101-163: the phase that follows a phase; after
\* the clock advance the step returns to the loop of run_full_simulation.
next_phase(phase) ==
    CASE phase = "events" -> "interactions"
      [] phase = "interactions" -> "actions"
      [] phase = "actions" -> "update"
      [] phase = "update" -> "narrator"
      [] phase = "narrator" -> "introduction"
      [] phase = "introduction" -> "overseer"
      [] phase = "overseer" -> "chapter"
      [] phase = "chapter" -> "ending"
      [] phase = "ending" -> "advance"
      [] phase = "advance" -> "loop"

\* The decision record of a call of should_initiate_interaction.
decided(ags, all_agents, agent, time, result) ==
    [called |-> TRUE, agent |-> agent,
     energy_level |-> ags[agent].energy_level,
     last_interaction_time |-> ags[agent].last_interaction_time,
     current_time |-> time,
     others_here |->
         Cardinality({i \in 1..Len(all_agents) :
                         /\ all_agents[i] # agent
                         /\ ags[all_agents[i]].location = ags[agent].location}),
     result |-> result, target |-> 0, failure |-> ""]

\* The mutation of the target list: agents already paired stay available.
available_targets_of_paired(ags, all_agents, interacted, agent) ==
    SelectSeq(all_agents,
        LAMBDA other :
            /\ ags[other].location = ags[agent].location
            /\ ags[other].name # ags[agent].name)

\* process_agent_interactions, lines 185-190: the agents the agent may pair
\* with.
available_targets_of(ags, all_agents, interacted, agent) ==
    SelectSeq(all_agents,
        LAMBDA other :
            /\ ags[other].location = ags[agent].location
            /\ ags[other].name # ags[agent].name
            /\ ags[other].name \notin interacted)

\* process_agent_interactions, lines 177-200: the body of the loop for one
\* agent of the shuffled list.
visit_agent(ags, arcs, all_agents, interacted, agent, step, draw, noise, reply) ==
    LET skip == [agents |-> ags, character_arcs |-> arcs,
                 interacted_agents |-> interacted,
                 interactions |-> <<>>, decision |-> NoDecision]
    IN IF ags[agent].name \in interacted THEN skip
       ELSE LET wants == should_initiate_interaction(ags, agent, all_agents,
                                                     step, draw)
                asked == [skip EXCEPT !.decision =
                                          decided(ags, all_agents, agent, step, wants)]
                available_targets ==
                    available_targets_of(ags, all_agents, interacted, agent)
                target == choose_interaction_target(ags, agent,
                                                    available_targets, noise)
            IN IF ~wants \/ available_targets = <<>> \/ target = 0 THEN asked
               ELSE LET r == process_agent_interaction(ags, arcs, agent,
                                                       target, step, reply)
                    IN IF r.ok
                       THEN [agents |-> r.agents,
                             character_arcs |-> r.character_arcs,
                             interacted_agents |->
                                 interacted \cup {ags[agent].name,
                                                  ags[target].name},
                             interactions |-> <<r.interaction>>,
                             decision |->
                                 [asked.decision EXCEPT
                                     !.target = target,
                                     !.failure = r.failure]]
                       ELSE [asked EXCEPT !.agents = r.agents,
                                          !.decision.target = target,
                                          !.decision.failure = r.failure]

\* The orders random.shuffle can leave a list in.
Shuffles(seq) ==
    {p \in [1..Len(seq) -> {seq[i] : i \in 1..Len(seq)}] :
        \A i, j \in 1..Len(seq) : i # j => p[i] # p[j]}

pairOther == <<worldVars, current_step, max_time_steps, simulation_running,
               run_outcome, events_this_step, narrator, overseerVars,
               faultVars>>

\* process_agent_interactions, lines 171-175: phase 2 starts with an empty
\* set of paired names and a shuffled copy of story_agents.
BeginInteractions ==
    /\ pc = "interactions"
    /\ pc' = IF story_agents = <<>> THEN next_phase("interactions")
             ELSE "pairing"
    /\ phase_log' = Append(phase_log, "interactions")
    /\ interacted_agents' = {}
    /\ agents_copy' \in Shuffles(story_agents)
    /\ UNCHANGED <<interactions_this_step, decision>>
    /\ UNCHANGED pairOther

pairWorld == <<queueVars, graphVars, locations, current_agents, story_agents,
               drain, moved, path_query>>

\* process_agent_interactions, lines 177-200: the next agent of the
\* shuffled copy is visited.
PairAgent ==
    /\ pc = "pairing"
    /\ agents_copy # <<>>
    /\ \E draw \in RandomDraws :
       \* a target is chosen and a reply read only when the agent initiates
       \E reply \in IF should_initiate_interaction(agents, Head(agents_copy),
                            story_agents, current_step, draw)
                     THEN Replies
                     ELSE {CHOOSE x \in Replies : TRUE},
          noise \in [1..Len(available_targets_of(agents, story_agents,
                             interacted_agents, Head(agents_copy))) ->
                        IF should_initiate_interaction(agents,
                               Head(agents_copy), story_agents, current_step,
                               draw)
                        THEN Noise ELSE {0}] :
          \E r \in {visit_agent(agents, character_arcs, story_agents,
                               interacted_agents, Head(agents_copy),
                               current_step, draw, noise, reply)} :
             /\ agents' = r.agents
             /\ character_arcs' = r.character_arcs
             /\ interacted_agents' = r.interacted_agents
             /\ interactions_this_step' =
                    interactions_this_step \o r.interactions
             /\ decision' = IF r.decision.called THEN r.decision ELSE decision
    /\ agents_copy' = Tail(agents_copy)
    /\ pc' = IF Tail(agents_copy) = <<>> THEN next_phase("interactions")
             ELSE "pairing"
    /\ UNCHANGED phase_log
    /\ UNCHANGED <<pairWorld, current_step, max_time_steps, simulation_running,
                   run_outcome, events_this_step, narrator, chapters,
                   story_metadata, current_chapter_content,
                   character_relationship_changes, chapter_decision,
                   faultVars>>

\* ----------------------------------------------------------------------
\* The interaction policy on its own: a run in its 21st step, about to
\* enter the interaction phase, with two agents whose energy, traits and
\* last interaction are what twenty steps can have left, and with or
\* without a third agent that has not interacted yet.
\* ----------------------------------------------------------------------
StoryLocs == {"A", "B"}
PolicyEnergies == {5, 6, 20}
PolicySteps == {21}

\* The agent a step loop has worked on: new_agent with the fields the
\* steps change.
worn_agent(name, traits, location, energy_level, last, relationships) ==
    [new_agent(name, traits, location) EXCEPT
        !.energy_level = energy_level,
        !.last_interaction_time = last,
        !.interaction_count = IF last = NoTime THEN 0 ELSE 1,
        !.relationships = relationships]

PolicyInit ==
    /\ MemoryManagerConstructed
    /\ actions_decided = <<>>
    /\ nearby_query = NoNearby
    /\ interaction_history = <<>>
    /\ event_history = <<>>
    /\ NarratorConstructed
    /\ collaborators = "flaky"
    /\ failed_calls = {}
    /\ runs = <<>>
    /\ OverseerConstructed
    /\ locations = StoryLocs
    /\ location_graph = [l \in StoryLocs |-> <<>>]
    /\ connected_locations = [l \in StoryLocs |-> <<>>]
    /\ story_agents \in {<<1, 2>>, <<1, 2, 3>>}
    /\ current_step \in PolicySteps
    /\ current_time = current_step - 1
    /\ \E where \in StoryLocs, energy \in [{1, 2} -> PolicyEnergies],
          traits \in [{1} -> TraitSets] \X [{2} -> {{}, {"outgoing"}}],
          last \in {NoTime, current_step - 2, current_step - 1},
          score \in {0, 70} :
          \* two agents that never shared a location never interacted
          /\ where # "A" => last = NoTime
          /\ last = NoTime => score = 0
          \* with a third agent, plain traits and the ends of the energies
          /\ Len(story_agents) = 3 =>
                /\ traits[1][1] = {} /\ traits[2][2] = {}
                /\ \A a \in {1, 2} : energy[a] \in {5, 20}
          /\ agents = [a \in 1..Len(story_agents) |->
                IF a = 3
                THEN new_agent(agent_name(3), {"outgoing"}, "A")
                ELSE worn_agent(agent_name(a), traits[a][a],
                                IF a = 1 THEN "A" ELSE where, energy[a], last,
                                IF score = 0 THEN <<>>
                                ELSE put(<<>>, agent_name(3 - a), score))]
          /\ current_agents =
                [l \in StoryLocs |->
                    {a \in 1..Len(story_agents) :
                        (IF a = 2 THEN where ELSE "A") = l}]
    /\ scheduled_events = <<>>
    /\ drain = NoDrain
    /\ moved = NoMove
    /\ path_query = NoQuery
    /\ pc = "interactions"
    /\ max_time_steps = DefaultMaxTimeSteps
    /\ simulation_running = TRUE
    /\ run_outcome = "running"
    /\ interactions_this_step = <<>>
    /\ events_this_step = <<>>
    /\ agents_copy = <<>>
    /\ interacted_agents = {}
    /\ phase_log = <<"events">>
    /\ decision = NoDecision

PolicyNext == BeginInteractions \/ PairAgent

SpecPolicy == PolicyInit /\ [][PolicyNext]_vars

\* The agent object that carries a name.
agent_named(name) == CHOOSE a \in DOMAIN agents : agents[a].name = name

\* ----------------------------------------------------------------------
\* C9: should_initiate_interaction returns false for an agent whose
\* energy_level is below 0.3, whatever the random draw, the personality, the
\* co-located agents and the step; and no interaction is recorded whose
\* initiator has an energy_level below 0.3.
TiredNeverInitiates ==
    /\ [](decision.called /\ decision.energy_level < 6 => ~decision.result)
    /\ [][\A i \in (Len(interactions_this_step) + 1)
                     ..Len(interactions_this_step') :
             agents[agent_named(interactions_this_step'[i].initiator)]
                 .energy_level >= 6]_vars

\* A tired agent (energy 0.25) of the most outgoing kind, with a co-located
\* partner and no recent interaction, was asked and declined.
TiredNeverInitiatesWitness ==
    /\ decision.called
    /\ decision.energy_level = 5
    /\ ~decision.result
    /\ "outgoing" \in agents[decision.agent].personality_traits
    /\ agents[decision.agent].last_interaction_time = NoTime
    /\ \A a \in DOMAIN agents : agents[a].location = "A"
    /\ pc = "pairing"

\* ----------------------------------------------------------------------
\* The phases of a step: agent states, Narrator, character introduction
\* ----------------------------------------------------------------------

\* StoryAgent.update_emotional_state(interaction_data): cheer is the draw
\* random.random() < 0.3 and restore the draw random.random() < 0.1.
update_emotional_state(agent, interacted, cheer, restore) ==
    LET mood == IF ~interacted THEN agent.current_mood
                ELSE IF agent.current_mood = "sad" THEN "neutral"
                ELSE IF agent.current_mood = "neutral" /\ cheer THEN "happy"
                ELSE agent.current_mood
        lowered == Max(2, agent.energy_level - 1)
    IN [agent EXCEPT !.current_mood = mood,
                     !.energy_level = IF restore THEN Min(FullEnergy, lowered + 6)
                                      ELSE lowered]

\* The mutation of the test: only the initiator of an interaction counts.
recent_interaction_initiator(interactions, name) ==
    \E i \in 1..Len(interactions) : interactions[i].participants[1] = name

\* any(... if agent.name in interaction.get('participants', []))
recent_interaction(interactions, name) ==
    \E i \in 1..Len(interactions) : InSeq(name, interactions[i].participants)

RECURSIVE Sum(_, _)
Sum(f, dom) ==
    IF dom = {} THEN 0
    ELSE LET x == CHOOSE y \in dom : TRUE IN f[x] + Sum(f, dom \ {x})

\* None and 0 are false where last_interaction_time is tested.
truthy(last_interaction_time) ==
    last_interaction_time # NoTime /\ last_interaction_time # 0

\* NarratorAgent.analyze_story_state(agents, environment, time_step), for a
\* non-empty agent list; the metrics are kept as fractions.
analyze_story_state(nar, ags, time_step) ==
    LET ids == DOMAIN ags
        total_interactions == Sum([a \in ids |-> ags[a].interaction_count], ids)
        max_possible == IF time_step > 0 THEN Cardinality(ids) * time_step ELSE 1
        moods == {ags[a].current_mood : a \in ids}
        total_relationships ==
            Sum([a \in ids |-> Cardinality(DOMAIN ags[a].relationships)], ids)
        relationship_changes ==
            Sum([a \in ids |->
                    Cardinality({n \in DOMAIN ags[a].relationships :
                                    \/ ags[a].relationships[n] > 100
                                    \/ ags[a].relationships[n] < -100})], ids)
        steps == nar.steps_since_last_event + 1
        recent_interactions ==
            Cardinality({a \in ids :
                            /\ truthy(ags[a].last_interaction_time)
                            /\ time_step - ags[a].last_interaction_time < 3})
    IN [nar EXCEPT
          !.interaction_density =
              Fraction(Min(total_interactions, max_possible), max_possible),
          !.emotional_variety = Fraction(Cardinality(moods), 5),
          !.relationship_velocity =
              IF total_relationships > 0
              THEN Fraction(relationship_changes, total_relationships)
              ELSE @,
          !.steps_since_last_event = steps,
          !.stagnation_score =
              IF recent_interactions = 0 /\ steps > 5
              THEN Fraction(Min(steps, 10), 10)
              ELSE Fraction(0, 1)]

\* The mutation of the cooldown: two steps are enough.
too_soon_two(nar) == nar.steps_since_last_event < 2

\* lines 105-106: don't intervene too frequently
too_soon(nar) == nar.steps_since_last_event < 3

\* NarratorAgent.evaluate_intervention_need(): health_score is
\*   0.3 density + 0.2 variety + 0.2 velocity + 0.3 (1 - stagnation),
\* compared with the thresholds 0.3, 0.6 and 0.8 over a common denominator.
evaluate_intervention_need(nar) ==
    LET d == nar.interaction_density
        v == nar.emotional_variety
        r == nar.relationship_velocity
        g == nar.stagnation_score
        den == d.den * v.den * r.den * g.den
        health == 3 * d.num * v.den * r.den * g.den
                  + 2 * v.num * d.den * r.den * g.den
                  + 2 * r.num * d.den * v.den * g.den
                  + 3 * (g.den - g.num) * d.den * v.den * r.den
    IN IF too_soon(nar) THEN "none"
       ELSE IF health < 3 * den THEN "high"
       ELSE IF health < 6 * den THEN "medium"
       ELSE IF health < 8 * den THEN "low"
       ELSE "none"

\* generate_event_candidates, in the order the code lists them; storm says
\* whether the weather description drawn contains "storm", and revealed is
\* the agent random.choice picks.
generate_event_candidates(ags, all_agents, locs, storm, revealed) ==
    LET isolated_agents ==
            SelectSeq(all_agents, LAMBDA a : ags[a].interaction_count < 2)
        everyone == {all_agents[i] : i \in 1..Len(all_agents)}
    IN (IF Len(isolated_agents) >= 2
        THEN <<[type |-> "relationship_catalyst", everywhere |-> FALSE,
                affected_agents |-> {isolated_agents[1], isolated_agents[2]},
                storm |-> FALSE, priority |-> 800]>>
        ELSE <<>>)
       \o (IF Cardinality(locs) > 1
           THEN <<[type |-> "relationship_catalyst", everywhere |-> FALSE,
                   affected_agents |-> everyone, storm |-> FALSE,
                   priority |-> 600]>>
           ELSE <<>>)
       \o <<[type |-> "environmental_pressure", everywhere |-> TRUE,
             affected_agents |-> everyone, storm |-> storm, priority |-> 400],
            [type |-> "environmental_pressure", everywhere |-> TRUE,
             affected_agents |-> everyone, storm |-> FALSE, priority |-> 300]>>
       \o (IF all_agents # <<>>
           THEN <<[type |-> "information_reveal", everywhere |-> FALSE,
                   affected_agents |-> {revealed}, storm |-> FALSE,
                   priority |-> 500]>>
           ELSE <<>>)

\* select_optimal_event: each priority is shifted by a draw of
\* random.uniform(-0.1, 0.1) and the first of the largest wins, so a
\* candidate can win when its priority is within less than 0.2 of the
\* largest, or is the first of the largest.
select_optimal_event(event_candidates) ==
    LET top == CHOOSE t \in {event_candidates[i].priority :
                                i \in 1..Len(event_candidates)} :
                   \A i \in 1..Len(event_candidates) :
                       event_candidates[i].priority <= t
    IN {event_candidates[i] : i \in
           {i \in 1..Len(event_candidates) :
               event_candidates[i].priority > top - 200}}

\* apply_event_effects(event): energy up by 0.2 for a relationship_catalyst,
\* stress up by 0.1 (in tenths) for a storm.
apply_event_effects(ags, all_agents, event) ==
    [a \in DOMAIN ags |->
        IF InSeq(a, all_agents)
           /\ (a \in event.affected_agents \/ event.everywhere)
        THEN IF event.type = "relationship_catalyst"
             THEN [ags[a] EXCEPT !.energy_level = Min(FullEnergy, @ + 4)]
             ELSE IF event.type = "environmental_pressure" /\ event.storm
             THEN [ags[a] EXCEPT !.stress_level = Min(10, @ + 1)]
             ELSE ags[a]
        ELSE ags[a]]

\* What generate_new_character returns: a profile whose fields nothing has
\* validated; the name is new, the starting location may be unknown to the
\* world and the relationship values are whatever the reply holds.
Profiles ==
    {[name |-> agent_name(3), personality_traits |-> {},
      starting_location |-> l, relationships |-> r] :
        l \in {"A", NoLoc},
        r \in {<<>>, put(<<>>, agent_name(1), 1500)}}

\* _get_default_character(available_locations), the profile
\* generate_new_character_profile returns when the reply holds no JSON
\* object, as the mock response to its prompt does: a name, the first
\* location of the world and no relationships.
default_character ==
    [name |-> agent_name(3), personality_traits |-> {},
     starting_location |-> "A", relationships |-> <<>>]

\* introduce_new_character, lines 377-386: the relationships between the
\* new agent and each existing agent.
seed_relationships(ags, all_agents, new, name, relationships) ==
    [a \in DOMAIN ags |->
        IF a = new
        THEN [ags[a] EXCEPT !.relationships =
                 [n \in {ags[all_agents[i]].name : i \in 1..Len(all_agents)} |->
                     get(relationships, n, 0)]]
        ELSE IF InSeq(a, all_agents)
        THEN [ags[a] EXCEPT !.relationships =
                 put(@, name, get(relationships, ags[a].name, 0))]
        ELSE ags[a]]

\* ----------------------------------------------------------------------
\* SimulationEngine: run_full_simulation and run_simulation_step
\* ----------------------------------------------------------------------
MaxSteps == 1

\* The step of a run the model takes up in the middle.
FlakyStep == 15

\* The steps before step FlakyStep a run is followed for from the middle.
MaxLaterSteps == 4

\* chapter_criteria['min_interactions'], chapter_criteria['max_interactions']
MinInteractions == 8
MaxInteractions == 25

\* narrator.should_introduce_new_character(...): the Narrator's policy for
\* introducing a character may answer either way while the model has an
\* agent object left.
should_introduce_new_character(all_agents) ==
    IF Len(all_agents) < Cardinality(AgentIds) THEN BOOLEAN ELSE {FALSE}

\* The state after initialize_simulation(initial_config): two locations,
\* two agents placed where the configuration starts them, a step limit, and
\* possibly an event scheduled beforehand for time 1.
Init ==
    /\ MemoryManagerConstructed
    /\ actions_decided = <<>>
    /\ nearby_query = NoNearby
    /\ interaction_history = <<>>
    /\ event_history = <<>>
    /\ NarratorConstructed
    /\ CollaboratorsUp
    /\ OverseerConstructed
    /\ locations = StoryLocs
    /\ location_graph = [l \in StoryLocs |-> <<>>]
    /\ connected_locations = [l \in StoryLocs |-> <<>>]
    /\ story_agents = <<1, 2>>
    /\ \E where \in StoryLocs, traits \in {{}, {"outgoing"}} :
          LET made == [a \in {1, 2} |->
                          new_agent(agent_name(a),
                                    IF a = 1 THEN traits ELSE {},
                                    IF a = 1 THEN "A" ELSE where)]
              placed == place_all(StoryLocs, [l \in StoryLocs |-> {}], made,
                                  <<1, 2>>)
          IN /\ current_agents = placed.current_agents
             /\ agents = placed.agents
    /\ current_time = 0
    /\ scheduled_events \in {<<>>, schedule_event(<<>>, 0, "e1", 1)}
    /\ drain = NoDrain
    /\ moved = NoMove
    /\ path_query = NoQuery
    /\ pc = "idle"
    /\ current_step = 0
    /\ max_time_steps \in (0..MaxSteps) \cup {DefaultMaxTimeSteps}
    /\ simulation_running = FALSE
    /\ run_outcome = "not_started"
    /\ interactions_this_step = <<>>
    /\ events_this_step = <<>>
    /\ agents_copy = <<>>
    /\ interacted_agents = {}
    /\ phase_log = <<>>
    /\ decision = NoDecision

pairingVars == <<agents_copy, interacted_agents, decision>>

\* Whether a call of a collaborator fails: only a flaky collaborator fails.
CallFails == IF collaborators = "flaky" THEN BOOLEAN ELSE {FALSE}

\* The mutation of the provider call: its exception leaves
\* generate_response.
generate_response_raises(reply, failed) ==
    [raised |-> failed, text |-> reply]

\* TextGenerator.generate_response(prompt), lines 40-74: the exception of a
\* failed provider call, or its error reply, is caught and the mock
\* response is returned in place of the reply.
generate_response(reply, failed) ==
    [raised |-> FALSE, text |-> IF failed THEN "mock" ELSE reply]

\* AgentMemoryInterface.remember_thought / remember_observation: the
\* exception of a failed memory_manager.add_memory is caught and an id that
\* starts with "failed_" is returned.
remember(failed) ==
    [raised |-> FALSE, id |-> IF failed THEN "failed_" ELSE "stored"]

\* The calls that failed, as failed_calls names them.
failures(kind, failed) == IF failed THEN {kind} ELSE {}

\* run_full_simulation, lines 491-492
StartRun ==
    /\ pc = "idle"
    /\ pc' = "loop"
    /\ simulation_running' = TRUE
    /\ run_outcome' = "running"
    /\ UNCHANGED <<worldVars, current_step, max_time_steps,
                   interactions_this_step, events_this_step, phase_log,
                   pairingVars, narrator, overseerVars>>
    /\ UNCHANGED faultVars

\* run_full_simulation, line 495, and run_simulation_step, lines 89-91: the
\* loop test holds and a step begins.  (The auto-save of lines 96-99 is due
\* at step 10, beyond the MaxSteps steps the model follows a run for from
\* its start and before the MaxLaterSteps steps it follows a run for up to
\* step FlakyStep.)
BeginStep ==
    /\ pc = "loop"
    /\ simulation_running /\ current_step < max_time_steps
    /\ \/ current_step < MaxSteps
       \/ /\ current_step >= FlakyStep - MaxLaterSteps - 1
          /\ current_step < FlakyStep - 1
    /\ current_step' = current_step + 1
    /\ interactions_this_step' = <<>>
    /\ events_this_step' = <<>>
    /\ phase_log' = <<>>
    /\ failed_calls' = {}
    /\ pc' = "events"
    /\ UNCHANGED fixedVars
    /\ UNCHANGED <<worldVars, max_time_steps, simulation_running, run_outcome,
                   pairingVars, narrator, overseerVars>>

\* run_full_simulation, lines 495 and 508-514: the loop test fails.
ExitLoop ==
    /\ pc = "loop"
    /\ ~(simulation_running /\ current_step < max_time_steps)
    /\ pc' = "finished"
    /\ run_outcome' = "completed"
    /\ UNCHANGED <<worldVars, current_step, max_time_steps, simulation_running,
                   interactions_this_step, events_this_step, phase_log,
                   pairingVars, narrator, overseerVars>>
    /\ UNCHANGED faultVars

\* process_event(event), for each drained event in turn
processed(events) ==
    [i \in 1..Len(events) |->
        [type |-> events[i], affected_agents |-> 0,
         significant_keywords |-> 0, description |-> "",
         execution_time |-> NoTime]]

\* log_event(event_data) for each event of a list: an entry with the
\* world's time joins event_history.
log_events(history, events, time) ==
    history \o [i \in 1..Len(events) |->
                   [time |-> time, type |-> "event", data |-> events[i]]]

\* Phase 1, lines 101-104
ProcessEvents ==
    /\ pc = "events"
    /\ pc' = next_phase("events")
    /\ phase_log' = Append(phase_log, "events")
    /\ \E r \in {process_scheduled_events(scheduled_events, current_time)} :
          /\ scheduled_events' = r.remaining_events
          /\ drain' = [before |-> scheduled_events, now |-> current_time,
                       returned |-> r.events_to_process,
                       left |-> r.remaining_events, calls |-> 1]
          /\ events_this_step' = events_this_step \o processed(r.events_to_process)
          \* process_event, line 435: each event joins the world's log
          /\ event_history' = log_events(event_history, r.events_to_process,
                                         current_time)
    /\ UNCHANGED <<placeVars, graphVars, moved, path_query, current_time,
                   current_step, max_time_steps, simulation_running,
                   run_outcome, interactions_this_step, pairingVars, narrator,
                   overseerVars>>
    /\ UNCHANGED <<collaborators, runs, memoryVars, actions_decided,
                   nearby_query, interaction_history, failed_calls>>

\* An exception that leaves run_simulation_step is caught by
\* run_full_simulation, lines 505-506, and ends the run.
step_outcome(raised, phase) ==
    [pc |-> IF raised THEN "finished" ELSE next_phase(phase),
     run_outcome |-> IF raised THEN "error" ELSE run_outcome]

\* Phase 3, process_agent_actions: decide_action for the agents that did not
\* interact, and remember_thought for the action decided; neither changes a
\* field of the agents.  decide_action and process_agent_actions have no
\* handler around generate_action.
ProcessAgentActions ==
    /\ pc = "actions"
    /\ phase_log' = Append(phase_log, "actions")
    \* the locals of process_agent_interactions are gone
    /\ agents_copy' = <<>>
    /\ interacted_agents' = {}
    /\ decision' = NoDecision
    /\ actions_decided' =
          SelectSeq(story_agents,
                    LAMBDA a : ~recent_interaction(interactions_this_step,
                                                   agents[a].name))
    /\ LET solo == {i \in 1..Len(story_agents) :
                       ~recent_interaction(interactions_this_step,
                                           agents[story_agents[i]].name)}
           calls == IF solo = {} THEN {FALSE} ELSE CallFails
       IN \E generation \in calls, memory \in calls :
          \E action \in {generate_response("action", generation)},
             thought \in {remember(memory)} :
             \E after \in {step_outcome(action.raised \/ thought.raised,
                                        "actions")} :
                /\ pc' = after.pc
                /\ run_outcome' = after.run_outcome
                /\ failed_calls' = failed_calls
                                      \cup failures("solo_action", generation)
                                      \cup failures("memory", memory)
    /\ UNCHANGED <<worldVars, current_step, max_time_steps, simulation_running,
                   interactions_this_step, events_this_step,
                   narrator, overseerVars, collaborators, runs, memoryVars,
                   nearby_query, interaction_history,
                   event_history>>

\* Phase 4, update_agent_states
UpdateAgentStates ==
    /\ pc = "update"
    /\ pc' = next_phase("update")
    /\ phase_log' = Append(phase_log, "update")
    /\ \E cheer \in [DOMAIN agents -> BOOLEAN],
          restore \in [DOMAIN agents -> BOOLEAN] :
          agents' = [a \in DOMAIN agents |->
                        update_emotional_state(agents[a],
                            recent_interaction(interactions_this_step,
                                               agents[a].name),
                            cheer[a], restore[a])]
    /\ UNCHANGED <<queueVars, graphVars, locations, current_agents,
                   story_agents, drain, moved, path_query, current_step,
                   max_time_steps, simulation_running, run_outcome,
                   interactions_this_step, events_this_step, pairingVars,
                   narrator, overseerVars>>
    /\ UNCHANGED faultVars

\* Phase 5, lines 116-121: analysis, and an intervention when one is needed
\* (process_narrator_intervention, execute_event, apply_event_effects).
NarratorPhase ==
    /\ pc = "narrator"
    /\ phase_log' = Append(phase_log, "narrator")
    /\ \E analysed \in {analyze_story_state(narrator, agents, current_step)} :
          IF evaluate_intervention_need(analysed) = "none"
          THEN /\ narrator' = analysed
               /\ pc' = next_phase("narrator")
               /\ UNCHANGED <<agents, events_this_step, run_outcome,
                              failed_calls>>
          ELSE \E storm \in BOOLEAN, revealed \in DOMAIN agents,
                  generation \in CallFails, memory \in CallFails :
               \E event \in select_optimal_event(
                               generate_event_candidates(agents, story_agents,
                                   locations, storm, revealed)),
                  detailed_event \in {generate_response("event", generation)},
                  observation \in {remember(memory)} :
                  /\ failed_calls' = failed_calls
                                        \cup failures("event", generation)
                                        \cup failures("memory", memory)
                  /\ IF detailed_event.raised
                     \* execute_event has no handler of its own
                     THEN /\ narrator' = analysed
                          /\ pc' = "finished"
                          /\ run_outcome' = "error"
                          /\ UNCHANGED <<agents, events_this_step>>
                     ELSE /\ narrator' = [analysed EXCEPT
                                             !.event_history = Append(@, current_time),
                                             !.steps_since_last_event = 0]
                          /\ events_this_step' =
                                Append(events_this_step,
                                       [type |-> event.type,
                                        affected_agents |->
                                            Cardinality(event.affected_agents),
                                        significant_keywords |-> 0,
                                        description |-> "",
                                        execution_time |-> current_time])
                          /\ agents' = apply_event_effects(agents,
                                                           story_agents, event)
                          /\ pc' = IF observation.raised THEN "finished"
                                   ELSE next_phase("narrator")
                          /\ run_outcome' = IF observation.raised THEN "error"
                                            ELSE run_outcome
    /\ UNCHANGED <<queueVars, graphVars, locations, current_agents,
                   story_agents, drain, moved, path_query, current_step,
                   max_time_steps, simulation_running,
                   interactions_this_step, pairingVars, overseerVars,
                   fixedVars>>

\* introduce_new_character(), lines 340-423, with the profile the
\* generator returned: the new agent is made, seeded, appended and placed,
\* and the introduction event joins events_this_step.
introduce_new_character(ags, all_agents, locs, ca, profile) ==
    LET new == Len(all_agents) + 1
        made == [a \in (DOMAIN ags) \cup {new} |->
                    IF a = new
                    THEN new_agent(profile.name, profile.personality_traits,
                                   profile.starting_location)
                    ELSE ags[a]]
        seeded == seed_relationships(made, all_agents, new, profile.name,
                                     profile.relationships)
        placed == move_agent(locs, ca, seeded, new, None,
                             profile.starting_location)
    IN [agents |-> placed.agents, current_agents |-> placed.current_agents,
        story_agents |-> Append(all_agents, new), new |-> new,
        result |-> placed.result]

\* Phase 5.5, lines 124-126, with the profiles a reply may hold.
IntroductionWith(profiles) ==
    /\ pc = "introduction"
    /\ pc' = next_phase("introduction")
    /\ phase_log' = Append(phase_log, "introduction")
    /\ \E wanted \in should_introduce_new_character(story_agents) :
          IF wanted
          THEN \E generation \in CallFails :
               \E response \in {generate_response("profile", generation)} :
               \E profile \in IF response.text = "mock"
                               THEN {default_character} ELSE profiles :
               \E r \in {IF response.raised
                          \* the handler of lines 342 and 419-422
                          THEN [agents |-> agents,
                                current_agents |-> current_agents,
                                story_agents |-> story_agents, new |-> 0,
                                result |-> FALSE]
                          ELSE introduce_new_character(agents, story_agents,
                                   locations, current_agents, profile)} :
                  /\ failed_calls' = failed_calls
                                        \cup failures("new_character",
                                                      generation)
                  /\ agents' = r.agents
                  /\ current_agents' = r.current_agents
                  /\ story_agents' = r.story_agents
                  /\ moved' = IF response.raised THEN moved
                              ELSE [op |-> "move_agent", agent |-> r.new,
                                    result |-> r.result]
                  /\ events_this_step' =
                        IF response.raised THEN events_this_step
                        ELSE Append(events_this_step,
                                    [type |-> "character_introduction",
                                     affected_agents |-> 1,
                                     significant_keywords |-> 0,
                                     description |-> "arrives",
                                     execution_time |-> current_step])
          ELSE UNCHANGED <<agents, current_agents, story_agents, moved,
                           events_this_step, failed_calls>>
    /\ UNCHANGED <<queueVars, graphVars, locations, drain, path_query,
                   current_step, max_time_steps, simulation_running,
                   run_outcome, interactions_this_step, pairingVars, narrator,
                   overseerVars, fixedVars>>

\* Phase 5.5 in a run whose replies name a character nobody has yet.
IntroductionPhase == IntroductionWith(Profiles)

\* Phase 6, lines 129-139: the Overseer observes each interaction of the
\* step, tracks the development of its participants, and observes each
\* event of the step.
RECURSIVE observe_all(_, _, _, _)
observe_all(o, ags, interactions, events) ==
    IF interactions # <<>>
    THEN LET interaction == Head(interactions)
             seen == observe_interaction(o.story_metadata,
                                         o.current_chapter_content,
                                         o.character_arcs,
                                         o.character_relationship_changes,
                                         interaction)
             initiator == CHOOSE a \in DOMAIN ags :
                              ags[a].name = interaction.participants[1]
             target == CHOOSE a \in DOMAIN ags :
                           ags[a].name = interaction.participants[2]
         IN observe_all([seen EXCEPT !.character_arcs =
                            track_character_development(
                                track_character_development(@, ags[initiator]),
                                ags[target])],
                        ags, Tail(interactions), events)
    ELSE IF events # <<>>
    THEN LET seen == observe_event(o.story_metadata,
                                   o.current_chapter_content, Head(events))
         IN observe_all([o EXCEPT
                            !.story_metadata = seen.story_metadata,
                            !.current_chapter_content =
                                seen.current_chapter_content],
                        ags, <<>>, Tail(events))
    ELSE o

OverseerPhase ==
    /\ pc = "overseer"
    /\ pc' = next_phase("overseer")
    /\ phase_log' = Append(phase_log, "overseer")
    /\ \E o \in {observe_all(
                     [story_metadata |-> story_metadata,
                      current_chapter_content |-> current_chapter_content,
                      character_arcs |-> character_arcs,
                      character_relationship_changes |->
                          character_relationship_changes],
                     agents, interactions_this_step, events_this_step)} :
          /\ story_metadata' = o.story_metadata
          /\ current_chapter_content' = o.current_chapter_content
          /\ character_arcs' = o.character_arcs
          /\ character_relationship_changes' =
                 o.character_relationship_changes
    /\ UNCHANGED <<worldVars, current_step, max_time_steps, simulation_running,
                   run_outcome, interactions_this_step, events_this_step,
                   pairingVars, narrator, chapters, chapter_decision>>
    /\ UNCHANGED faultVars

\* The six signals of should_end_current_chapter, lines 306-344.
\* 1. a plot point of the last 3 steps above plot_significance_threshold
major_plot_point(content, step) ==
    \E i \in 1..Len(content.plot_points) :
        /\ step - content.plot_points[i].step <= 3
        /\ content.plot_points[i].significance > 70

\* 2. an emotional beat of the last 2 steps above emotional_climax_threshold
emotional_climax(content, step) ==
    \E i \in 1..Len(content.emotional_beats) :
        /\ step - content.emotional_beats[i].step <= 2
        /\ content.emotional_beats[i].emotional_intensity > 80

\* 3. _assess_character_development_in_chapter: a key moment above
\* character_development_threshold in some arc
character_development(arcs) ==
    \E c \in DOMAIN arcs :
        \E m \in arcs[c].key_moments : m.significance > 60

\* 4. _assess_relationship_changes_in_chapter: a significant moment above
\* relationship_change_threshold for some pair
relationship_changes(changes) ==
    \E k \in DOMAIN changes :
        \E m \in changes[k].significant_moments : m.significance > 50

\* 5. _detect_resolution_moment: a resolution keyword in the last three
\* interactions of the chapter
conflict_resolution(content) ==
    \E i \in 1..Len(content.last_interactions) :
        content.last_interactions[i].content \cap ResolutionKeywords # {}

\* 6. _detect_natural_pause: at least two recent interactions whose average
\* emotional_intensity (0.5 when the sentiment has none) is below 0.4
natural_pause(content) ==
    LET recent == content.last_interactions
        total_intensity ==
            Sum([i \in 1..Len(recent) |->
                    get(recent[i].sentiment, "emotional_intensity", 50)],
                1..Len(recent))
    IN Len(recent) >= 2 /\ total_intensity < 40 * Len(recent)

\* The ending score the additions of lines 306-344 leave, in thousandths.
\* The additions are IEEE double additions of 0.4, 0.3, 0.2, 0.2, 0.3 and
\* 0.1 in this order: for the signals listed in below the sum is the double
\* just under the decimal sum, for those in above the double just over it.
float_sum(signals) ==
    LET weights == <<4, 3, 2, 2, 3, 1>>
        tenths == Sum([i \in 1..6 |-> IF signals[i] THEN weights[i] ELSE 0],
                      1..6)
        bits == [i \in 1..6 |-> IF signals[i] THEN 1 ELSE 0]
        below == {<<0, 0, 1, 1, 1, 1>>, <<0, 1, 1, 1, 0, 1>>,
                  <<1, 0, 0, 0, 1, 1>>, <<1, 1, 0, 0, 0, 1>>,
                  <<1, 1, 0, 1, 0, 0>>, <<1, 1, 0, 1, 0, 1>>,
                  <<1, 1, 1, 0, 0, 0>>, <<1, 1, 1, 0, 0, 1>>,
                  <<1, 1, 1, 1, 0, 0>>}
        above == {<<0, 0, 0, 1, 0, 1>>, <<0, 0, 1, 0, 0, 1>>,
                  <<1, 0, 0, 1, 0, 0>>, <<1, 0, 0, 1, 0, 1>>,
                  <<1, 0, 0, 1, 1, 0>>, <<1, 0, 0, 1, 1, 1>>,
                  <<1, 0, 1, 0, 0, 0>>, <<1, 0, 1, 0, 0, 1>>,
                  <<1, 0, 1, 0, 1, 0>>, <<1, 0, 1, 0, 1, 1>>,
                  <<1, 0, 1, 1, 1, 1>>}
    IN 100 * tenths + (IF bits \in below THEN -1
                       ELSE IF bits \in above THEN 1 ELSE 0)

\* The mutation of the floor: a chapter may close from 7 interactions on.
too_few_interactions_seven(interactions_count) == interactions_count < 7

\* line 295: interactions_count < chapter_criteria['min_interactions']
too_few_interactions(interactions_count) == interactions_count < MinInteractions

\* should_end_current_chapter(current_step): below min_interactions and
\* from max_interactions on the returned dict has a 'reason' and no
\* 'reasons' (and no 'ending_score'); in between the decision follows the
\* ending score.
should_end_current_chapter(content, arcs, changes, step) ==
    LET interactions_count == content.interactions
        ending_score ==
            float_sum(<<major_plot_point(content, step),
                        emotional_climax(content, step),
                        character_development(arcs),
                        relationship_changes(changes),
                        conflict_resolution(content),
                        natural_pause(content)>>)
    IN IF too_few_interactions(interactions_count)
       THEN [asked |-> TRUE, should_end |-> FALSE, has_reasons |-> FALSE,
             urgency |-> "", ending_score |-> 0,
             interactions_count |-> interactions_count]
       ELSE IF interactions_count >= MaxInteractions
       THEN [asked |-> TRUE, should_end |-> TRUE, has_reasons |-> FALSE,
             urgency |-> "high", ending_score |-> 0,
             interactions_count |-> interactions_count]
       ELSE [asked |-> TRUE, should_end |-> ending_score >= 600,
             has_reasons |-> TRUE,
             urgency |-> IF ending_score >= 800 THEN "high"
                         ELSE IF ending_score >= 600 THEN "medium"
                         ELSE "low",
             ending_score |-> ending_score,
             interactions_count |-> interactions_count]

\* Phase 7, lines 142-154: a chapter is closed when the Overseer decides so
\* or at every 500th step; line 147 reads chapter_decision['reasons'] and
\* raises when the decision has none, which ends the run.
ChapterCheck ==
    /\ pc = "chapter"
    /\ phase_log' = Append(phase_log, "chapter")
    /\ chapter_decision' =
          should_end_current_chapter(current_chapter_content, character_arcs,
                                     character_relationship_changes,
                                     current_step)
    /\ IF chapter_decision'.should_end \/ current_step % 500 = 0
       THEN \E generation \in
                  IF current_chapter_content.interactions = 0
                     /\ current_chapter_content.events = 0
                  THEN {FALSE} ELSE CallFails :
            \E chapter_text \in {generate_response("chapter", generation)},
               r \in {synthesize_chapter(chapters, story_metadata,
                          current_chapter_content, current_step)} :
               /\ failed_calls' = failed_calls
                                     \cup failures("chapter", generation)
               /\ IF chapter_text.raised
                  \* synthesize_chapter has no handler of its own
                  THEN /\ pc' = "finished" /\ run_outcome' = "error"
                       /\ UNCHANGED <<chapters, story_metadata,
                                      current_chapter_content>>
                  ELSE /\ chapters' = r.chapters
                       /\ story_metadata' = r.story_metadata
                       /\ current_chapter_content' = r.current_chapter_content
                       /\ IF chapter_decision'.should_end
                             /\ ~chapter_decision'.has_reasons
                          THEN pc' = "finished" /\ run_outcome' = "error"
                          ELSE /\ pc' = next_phase("chapter")
                               /\ UNCHANGED run_outcome
       ELSE /\ pc' = next_phase("chapter")
            /\ UNCHANGED <<chapters, story_metadata,
                           current_chapter_content, run_outcome,
                           failed_calls>>
    /\ UNCHANGED <<character_arcs, character_relationship_changes,
                   fixedVars>>
    /\ UNCHANGED <<worldVars, current_step, max_time_steps, simulation_running,
                   interactions_this_step, events_this_step, pairingVars,
                   narrator>>

\* description.lower() of the descriptions the model's events carry
lower(description) ==
    IF description = "A Resolution" THEN "a resolution" ELSE description

\* 'resolution' in description.lower()
mentions_resolution(description) == lower(description) = "a resolution"

\* The mutation of the score: three gates are enough.
most_criteria_three(ending_score) == ending_score >= 3

\* line 666: ending_score >= 4
most_criteria(ending_score) == ending_score >= 4

\* OverseerAgent.detect_ending_readiness(agents, story_metrics)
detect_ending_readiness(chs, meta, ags, arcs) ==
    LET ids == DOMAIN ags
        total_relationships ==
            Sum([a \in ids |-> Cardinality(DOMAIN ags[a].relationships)], ids)
        completed_arcs ==
            Cardinality({c \in DOMAIN arcs : arcs[c].character_growth >= 2})
        recent_major_events ==
            {i \in 1..Len(meta.major_events) :
                mentions_resolution(meta.major_events[i].description)}
        ending_score ==
            (IF Len(chs) >= 3 THEN 1 ELSE 0)
            + (IF total_relationships >= Cardinality(ids) THEN 1 ELSE 0)
            + (IF meta.total_interactions >= 20 THEN 1 ELSE 0)
            + (IF 10 * completed_arcs >= 7 * Cardinality(ids) THEN 1 ELSE 0)
            + (IF recent_major_events # {} THEN 1 ELSE 0)
    IN most_criteria(ending_score)

\* NarratorAgent.detect_stagnation: at least 2 of 4 indicators
detect_stagnation(nar, ags) ==
    LET stagnation_indicators ==
            (IF 5 * nar.interaction_density.num < nar.interaction_density.den
             THEN 1 ELSE 0)
            + (IF 2 * nar.stagnation_score.num > nar.stagnation_score.den
               THEN 1 ELSE 0)
            + (IF Cardinality({ags[a].location : a \in DOMAIN ags}) = 1
                  /\ nar.steps_since_last_event > 3
               THEN 1 ELSE 0)
            + (IF 10 * nar.emotional_variety.num < 3 * nar.emotional_variety.den
               THEN 1 ELSE 0)
    IN stagnation_indicators >= 2

\* SimulationEngine.check_ending_conditions()
check_ending_conditions(step, max, chs, meta, nar, ags, arcs) ==
    \/ step >= max
    \/ detect_ending_readiness(chs, meta, ags, arcs)
    \/ (detect_stagnation(nar, ags) /\ step > 20)

\* SimulationEngine.conclude_story(): line 473 calls
\* synthesize_chapter(self.current_step, max_interactions=20), a keyword
\* synthesize_chapter(self, current_step, force_end=False) does not take:
\* the call raises TypeError before a chapter is made and before line 476
\* sets simulation_running to False.
conclude_story(chs, running) ==
    [raised |-> TRUE, chapters |-> chs, simulation_running |-> running]

\* Phase 8, lines 157-160; an exception leaves run_simulation_step and is
\* caught by run_full_simulation, lines 505-506.
EndingCheck ==
    /\ pc = "ending"
    /\ phase_log' = Append(phase_log, "ending")
    /\ IF check_ending_conditions(current_step, max_time_steps, chapters,
                                  story_metadata, narrator, agents,
                                  character_arcs)
       THEN \E c \in {conclude_story(chapters, simulation_running)} :
               /\ chapters' = c.chapters
               /\ simulation_running' = c.simulation_running
               /\ pc' = "finished"
               /\ run_outcome' = IF c.raised THEN "error" ELSE "completed"
       ELSE /\ pc' = next_phase("ending")
            /\ UNCHANGED <<chapters, simulation_running, run_outcome>>
    /\ UNCHANGED <<worldVars, current_step, max_time_steps,
                   interactions_this_step, events_this_step, pairingVars,
                   narrator, story_metadata, current_chapter_content,
                   character_arcs, character_relationship_changes,
                   chapter_decision>>
    /\ UNCHANGED faultVars

\* Phase 9, line 163: environment.advance_time(1); the step returns True.
AdvanceClock ==
    /\ pc = "advance"
    /\ pc' = next_phase("advance")
    /\ phase_log' = Append(phase_log, "advance")
    /\ current_time' = current_time + 1
    /\ scheduled_events' =
          process_scheduled_events(scheduled_events,
                                   current_time + 1).remaining_events
    /\ UNCHANGED <<placeVars, graphVars, drain, moved, path_query,
                   current_step, max_time_steps, simulation_running,
                   run_outcome, interactions_this_step, events_this_step,
                   pairingVars, narrator, overseerVars>>
    /\ UNCHANGED faultVars

Next ==
    \/ StartRun
    \/ BeginStep
    \/ ExitLoop
    \/ ProcessEvents
    \/ BeginInteractions
    \/ PairAgent
    \/ ProcessAgentActions
    \/ UpdateAgentStates
    \/ NarratorPhase
    \/ IntroductionPhase
    \/ OverseerPhase
    \/ ChapterCheck
    \/ EndingCheck
    \/ AdvanceClock

Spec == Init /\ [][Next]_vars

\* ----------------------------------------------------------------------
\* A step with flaky collaborators: the 15th step of a run of two agents
\* that have met at every other step, with or without a third agent that
\* has met nobody, and with a Narrator that has intervened at every third
\* step, begins; the generation provider and the memory backend may fail
\* at any call of the step.
\* ----------------------------------------------------------------------

\* The interaction the two agents had at a step, as the Overseer saw it.
past_interaction(step, content) ==
    [initiator |-> agent_name(1), target |-> agent_name(2),
     location |-> "A", time |-> step,
     participants |-> <<agent_name(1), agent_name(2)>>,
     content |-> content,
     sentiment |-> [k \in {"positive_sentiment", "negative_sentiment"} |->
                       IF k = "positive_sentiment" THEN 80 ELSE 10]]

\* The event the Narrator executed at a step, as the Overseer saw it.
past_event(step) ==
    [type |-> "environmental_pressure", affected_agents |-> 2,
     significant_keywords |-> 0, description |-> "",
     execution_time |-> step - 1]

\* An agent of the pair that has met at every other step: seven
\* interactions, the last one two steps ago.
seasoned_agent(a, energy) ==
    [worn_agent(agent_name(a), {}, "A", energy, FlakyStep - 2,
                put(<<>>, agent_name(3 - a), 300))
     EXCEPT !.interaction_count = 7]

\* What the Narrator holds after the analysis of the step before.
seasoned_narrator(ags) ==
    [analyze_story_state(
         [steps_since_last_event |-> 1,
          event_history |-> [i \in 1..4 |-> FlakyStep - 16 + 3 * i],
          interaction_density |-> Fraction(0, 1),
          emotional_variety |-> Fraction(0, 1),
          relationship_velocity |-> Fraction(0, 1),
          stagnation_score |-> Fraction(0, 1)],
         ags, FlakyStep - 1)
     EXCEPT !.steps_since_last_event = 2]

\* What the Overseer holds after observing the seven interactions, the
\* last of which said what said holds, and the four events.
seasoned_overseer(ags, said) ==
    observe_all([story_metadata |->
                     [current_chapter |-> 1, total_interactions |-> 0,
                      major_events |-> <<>>],
                 current_chapter_content |-> chapter_content(0),
                 character_arcs |-> <<>>,
                 character_relationship_changes |-> <<>>],
                ags,
                [i \in 1..7 |->
                    past_interaction(2 * i - 1, IF i = 7 THEN said ELSE {})],
                [i \in 1..4 |-> past_event(3 * i)])

FlakyInit ==
    /\ MemoryManagerConstructed
    /\ actions_decided = <<>>
    /\ nearby_query = NoNearby
    /\ interaction_history = <<>>
    /\ event_history = <<>>
    /\ collaborators = "flaky"
    /\ failed_calls = {}
    /\ runs = <<>>
    /\ locations = StoryLocs
    /\ location_graph = [l \in StoryLocs |-> <<>>]
    /\ connected_locations = [l \in StoryLocs |-> <<>>]
    /\ story_agents \in {<<1, 2>>, <<1, 2, 3>>}
    /\ current_agents = [l \in StoryLocs |->
                            IF l = "A" THEN {1, 2}
                            ELSE {a \in {3} : Len(story_agents) = 3}]
    /\ current_step = FlakyStep
    /\ current_time = FlakyStep - 1
    /\ \E energy \in {5, 12}, said \in {{}, {"love", "betrayal", "trust"}} :
          /\ Len(story_agents) = 3 => energy = 12
          /\ agents = [a \in 1..Len(story_agents) |->
                IF a = 3 THEN worn_agent(agent_name(3), {}, "B", 12, NoTime,
                                         <<>>)
                ELSE seasoned_agent(a, energy)]
          /\ narrator = seasoned_narrator(agents)
          /\ \E o \in {seasoned_overseer(agents, said)} :
                /\ story_metadata = o.story_metadata
                /\ current_chapter_content = o.current_chapter_content
                /\ character_arcs = o.character_arcs
                /\ character_relationship_changes =
                       o.character_relationship_changes
    /\ chapters = <<>>
    /\ chapter_decision = NoChapterDecision
    /\ scheduled_events = <<>>
    /\ drain = NoDrain
    /\ moved = NoMove
    /\ path_query = NoQuery
    /\ pc = "events"
    /\ max_time_steps \in {FlakyStep, DefaultMaxTimeSteps}
    /\ Len(story_agents) = 3 => max_time_steps = DefaultMaxTimeSteps
    /\ simulation_running = TRUE
    /\ run_outcome = "running"
    /\ interactions_this_step = <<>>
    /\ events_this_step = <<>>
    /\ agents_copy = <<>>
    /\ interacted_agents = {}
    /\ phase_log = <<>>
    /\ decision = NoDecision

FlakyNext ==
    \/ ProcessEvents
    \/ BeginInteractions
    \/ PairAgent
    \/ ProcessAgentActions
    \/ UpdateAgentStates
    \/ NarratorPhase
    \/ IntroductionPhase
    \/ OverseerPhase
    \/ ChapterCheck
    \/ EndingCheck
    \/ AdvanceClock

SpecFlaky == FlakyInit /\ [][FlakyNext]_vars

\* ----------------------------------------------------------------------
\* Two runs from one configuration under one seed: each run has its own
\* process (its own hash seed and wall clock, the entropy nothing seeds),
\* and both read the same draws of the seeded random module and the same
\* replies of the collaborators.  The runs are followed through the phases
\* that make the interaction log, the relationship scores and the
\* chapters: the interactions, the agents' states, the Overseer's
\* observation and the chapter decision.
\* ----------------------------------------------------------------------
MaxTwinSteps == 2

\* A run in the loop of run_full_simulation, FlakyStep - 1 steps done.
seasoned_run(energy, said, entropy) ==
    LET ags == [a \in {1, 2} |-> seasoned_agent(a, energy)]
        o == seasoned_overseer(ags, said)
    IN [story_agents |-> <<1, 2>>, agents |-> ags,
        story_metadata |-> o.story_metadata,
        current_chapter_content |-> o.current_chapter_content,
        character_arcs |-> o.character_arcs,
        character_relationship_changes |-> o.character_relationship_changes,
        chapters |-> <<>>, interacted_agents |-> {}, agents_copy |-> <<>>,
        interactions_this_step |-> <<>>, log |-> <<>>,
        current_step |-> FlakyStep - 1, phase |-> "loop",
        entropy |-> entropy]

\* run_simulation_step, lines 89-91, and process_agent_interactions, lines
\* 171-175: the step begins and the agents are shuffled.
run_begin(run, order) ==
    [run EXCEPT !.current_step = @ + 1,
                !.interactions_this_step = <<>>,
                !.interacted_agents = {},
                !.agents_copy = order,
                !.phase = "pairing"]

\* What the visit of an agent leaves in the run.
visited(run, r) ==
    [run EXCEPT
        !.agents = r.agents,
        !.character_arcs = r.character_arcs,
        !.interacted_agents = r.interacted_agents,
        !.interactions_this_step = @ \o r.interactions,
        !.log = @ \o [i \in 1..Len(r.interactions) |->
                         [initiator |-> r.interactions[i].initiator,
                          target |-> r.interactions[i].target,
                          step |-> r.interactions[i].time]],
        !.agents_copy = Tail(@),
        !.phase = IF Tail(run.agents_copy) = <<>> THEN "finish" ELSE "pairing"]

\* The mutation of the draw: should_initiate_interaction reads a source the
\* seed does not reach, which differs from one process to the next.
run_visit_unseeded(run, draw, noise, reply) ==
    visited(run, visit_agent(run.agents, run.character_arcs, run.story_agents,
                             run.interacted_agents, Head(run.agents_copy),
                             run.current_step,
                             IF run.entropy = 1 THEN 0 ELSE 99, noise, reply))

\* process_agent_interactions, lines 177-200, for the next agent of the
\* shuffled copy: the draw of random.random(), the draws of random.uniform
\* and the reply of the collaborators are all the visit reads from outside
\* the run's state.
run_visit(run, draw, noise, reply) ==
    visited(run, visit_agent(run.agents, run.character_arcs, run.story_agents,
                             run.interacted_agents, Head(run.agents_copy),
                             run.current_step, draw, noise, reply))

\* The rest of the step, lines 110-154: the agents' states are updated, the
\* Overseer observes the interactions of the step, and a chapter is closed
\* when the Overseer decides so.
run_finish(run, cheer, restore) ==
    LET updated == [a \in DOMAIN run.agents |->
                       update_emotional_state(run.agents[a],
                           recent_interaction(run.interactions_this_step,
                                              run.agents[a].name),
                           cheer[a], restore[a])]
        o == observe_all([story_metadata |-> run.story_metadata,
                          current_chapter_content |->
                              run.current_chapter_content,
                          character_arcs |-> run.character_arcs,
                          character_relationship_changes |->
                              run.character_relationship_changes],
                         updated, run.interactions_this_step, <<>>)
        chapter_decision_made ==
            should_end_current_chapter(o.current_chapter_content,
                                       o.character_arcs,
                                       o.character_relationship_changes,
                                       run.current_step)
        closed == synthesize_chapter(run.chapters, o.story_metadata,
                                     o.current_chapter_content,
                                     run.current_step)
        ended == chapter_decision_made.should_end
    IN [run EXCEPT
           !.agents = updated,
           !.character_arcs = o.character_arcs,
           !.character_relationship_changes = o.character_relationship_changes,
           !.story_metadata = IF ended THEN closed.story_metadata
                              ELSE o.story_metadata,
           !.current_chapter_content =
               IF ended THEN closed.current_chapter_content
               ELSE o.current_chapter_content,
           !.chapters = IF ended THEN closed.chapters ELSE @,
           !.phase = "loop"]

twinOther == <<worldVars, pc, current_step, max_time_steps,
               simulation_running, run_outcome, interactions_this_step,
               events_this_step, pairingVars, phase_log, narrator,
               overseerVars, failed_calls, collaborators, memoryVars,
               actions_decided, nearby_query, interaction_history,
                   event_history>>

TwinInit ==
    /\ MemoryManagerConstructed
    /\ actions_decided = <<>>
    /\ nearby_query = NoNearby
    /\ interaction_history = <<>>
    /\ event_history = <<>>
    /\ EngineConstructed
    /\ NarratorConstructed
    /\ OverseerConstructed
    /\ collaborators = "up"
    /\ failed_calls = {}
    /\ locations = StoryLocs
    /\ location_graph = [l \in StoryLocs |-> <<>>]
    /\ connected_locations = [l \in StoryLocs |-> <<>>]
    /\ current_agents = [l \in StoryLocs |-> {}]
    /\ story_agents = <<>>
    /\ agents = <<>>
    /\ current_time = 0
    /\ scheduled_events = <<>>
    /\ drain = NoDrain
    /\ moved = NoMove
    /\ path_query = NoQuery
    /\ \E energy \in {6, 12}, said \in {{}, {"love", "betrayal", "trust"}} :
          runs = [entropy \in {1, 2} |-> seasoned_run(energy, said, entropy)]

TwinBegin ==
    /\ runs[1].phase = "loop"
    /\ runs[1].current_step < FlakyStep - 1 + MaxTwinSteps
    /\ \E order \in Shuffles(runs[1].story_agents) :
          runs' = [i \in DOMAIN runs |-> run_begin(runs[i], order)]
    /\ UNCHANGED twinOther

TwinVisit ==
    /\ runs[1].phase = "pairing"
    /\ \E draw \in RandomDraws, reply \in Replies,
          noise \in [1..Len(runs[1].story_agents) -> Noise] :
          runs' = [i \in DOMAIN runs |->
                      run_visit(runs[i], draw, noise, reply)]
    /\ UNCHANGED twinOther

TwinFinish ==
    /\ runs[1].phase = "finish"
    /\ \E cheer \in [DOMAIN runs[1].agents -> BOOLEAN],
          restore \in [DOMAIN runs[1].agents -> BOOLEAN] :
          runs' = [i \in DOMAIN runs |-> run_finish(runs[i], cheer, restore)]
    /\ UNCHANGED twinOther

TwinNext == TwinBegin \/ TwinVisit \/ TwinFinish

SpecTwin == TwinInit /\ [][TwinNext]_vars

\* ----------------------------------------------------------------------
\* Serialization: SimulationEngine.to_dict / from_dict and the to_dict /
\* from_dict of the objects it holds.  A simulation is a record of the
\* fields of the engine; its agents are the list story_agents of agent
\* objects.
\* ----------------------------------------------------------------------

\* The simulation the variables hold.
simulation ==
    [current_step |-> current_step,
     max_time_steps |-> max_time_steps,
     simulation_running |-> simulation_running,
     interactions_this_step |-> interactions_this_step,
     events_this_step |-> events_this_step,
     environment |-> [locations |-> locations,
                      location_graph |-> location_graph,
                      connected_locations |-> connected_locations,
                      current_agents |-> current_agents,
                      current_time |-> current_time,
                      scheduled_events |-> scheduled_events],
     narrator |-> narrator,
     overseer |-> [chapters |-> chapters,
                   story_metadata |-> story_metadata,
                   current_chapter_content |-> current_chapter_content,
                   character_arcs |-> character_arcs,
                   character_relationship_changes |->
                       character_relationship_changes],
     story_agents |-> story_agents,
     agents |-> agents]

\* EnvironmentStateManager.to_dict / from_dict, NarratorAgent.to_dict /
\* from_dict and StoryAgent.to_dict / from_dict: each dict holds the fields
\* of its object and each from_dict makes an object with those fields.
environment_to_dict(environment) ==
    [kind |-> "environment", fields |-> environment]
environment_from_dict(data) == data.fields
narrator_to_dict(nar) == [kind |-> "narrator", fields |-> nar]
narrator_from_dict(data) == data.fields
agent_to_dict(agent) == [kind |-> "agent", fields |-> agent]
agent_from_dict(data) == data.fields

\* OverseerAgent.to_dict(): a dict of copies of the Overseer's fields
overseer_to_dict(overseer) ==
    [k \in {"chapters", "story_metadata", "current_chapter_content",
            "character_arcs", "character_relationship_changes"} |->
        CASE k = "chapters" -> overseer.chapters
          [] k = "story_metadata" -> overseer.story_metadata
          [] k = "current_chapter_content" -> overseer.current_chapter_content
          [] k = "character_arcs" -> overseer.character_arcs
          [] k = "character_relationship_changes" ->
                overseer.character_relationship_changes]

\* The mutation of the Overseer's restoring: the chapter in progress is not
\* read from the dict and stays as the constructor made it.
overseer_from_dict_new_chapter(data) ==
    [chapters |-> data["chapters"],
     story_metadata |-> data["story_metadata"],
     current_chapter_content |-> chapter_content(0),
     character_arcs |-> data["character_arcs"],
     character_relationship_changes |->
         get(data, "character_relationship_changes", <<>>)]

\* OverseerAgent.from_dict(data): an Overseer is made and its fields are
\* set from the dict; current_chapter_content and
\* character_relationship_changes have defaults for a dict without them.
overseer_from_dict(data) ==
    [chapters |-> data["chapters"],
     story_metadata |-> data["story_metadata"],
     current_chapter_content |->
         get(data, "current_chapter_content", chapter_content(0)),
     character_arcs |-> data["character_arcs"],
     character_relationship_changes |->
         get(data, "character_relationship_changes", <<>>)]

\* SimulationEngine.to_dict()
to_dict(sim) ==
    [current_step |-> sim.current_step,
     max_time_steps |-> sim.max_time_steps,
     simulation_running |-> sim.simulation_running,
     interactions_this_step |-> sim.interactions_this_step,
     events_this_step |-> sim.events_this_step,
     environment |-> environment_to_dict(sim.environment),
     narrator |-> narrator_to_dict(sim.narrator),
     overseer |-> overseer_to_dict(sim.overseer),
     story_agents |-> [i \in 1..Len(sim.story_agents) |->
                          agent_to_dict(sim.agents[sim.story_agents[i]])]]

\* from_dict, lines 567-579: the agents are made from their dicts in the
\* order of the list, appended to story_agents and added back to the
\* environment at their locations.
RECURSIVE restore_agents(_, _, _)
restore_agents(sim, agents_data, i) ==
    IF i > Len(agents_data) THEN sim
    ELSE LET agent == agent_from_dict(agents_data[i])
             made == [a \in (DOMAIN sim.agents) \cup {i} |->
                         IF a = i THEN agent ELSE sim.agents[a]]
             placed == move_agent(sim.environment.locations,
                                  sim.environment.current_agents, made, i,
                                  None, agent.location)
         IN restore_agents(
                [sim EXCEPT !.story_agents = Append(@, i),
                            !.agents = placed.agents,
                            !.environment.current_agents =
                                placed.current_agents],
                agents_data, i + 1)

\* SimulationEngine.from_dict(data)
from_dict(data) ==
    restore_agents(
        [current_step |-> data.current_step,
         max_time_steps |-> data.max_time_steps,
         simulation_running |-> data.simulation_running,
         interactions_this_step |-> data.interactions_this_step,
         events_this_step |-> data.events_this_step,
         environment |-> environment_from_dict(data.environment),
         narrator |-> narrator_from_dict(data.narrator),
         overseer |-> overseer_from_dict(data.overseer),
         story_agents |-> <<>>,
         agents |-> <<>>],
        data.story_agents, 1)

\* What the next step of a simulation decides, for every value its draws
\* can take: who wants to interact and with whom, whether the Narrator
\* intervenes, whether the chapter closes and whether the story ends.
next_step_decisions(sim) ==
    LET step == sim.current_step + 1
        ids == {sim.story_agents[i] : i \in 1..Len(sim.story_agents)}
        analysed == analyze_story_state(sim.narrator, sim.agents, step)
    IN [initiates |->
            [a \in ids |-> [draw \in RandomDraws |->
                should_initiate_interaction(sim.agents, a, sim.story_agents,
                                            step, draw)]],
        targets |->
            [a \in ids |-> [noise \in [1..Len(sim.story_agents) -> Noise] |->
                LET t == choose_interaction_target(sim.agents, a,
                             available_targets_of(sim.agents,
                                 sim.story_agents, {}, a), noise)
                IN IF t = 0 THEN "" ELSE sim.agents[t].name]],
        due_events |->
            process_scheduled_events(sim.environment.scheduled_events,
                                     sim.environment.current_time)
                .events_to_process,
        intervention |-> evaluate_intervention_need(analysed),
        chapter |->
            should_end_current_chapter(sim.overseer.current_chapter_content,
                sim.overseer.character_arcs,
                sim.overseer.character_relationship_changes, step),
        ending |->
            check_ending_conditions(step, sim.max_time_steps,
                sim.overseer.chapters, sim.overseer.story_metadata,
                analysed, sim.agents, sim.overseer.character_arcs)]

\* ----------------------------------------------------------------------
\* The chapter decision on its own: step 15 of a run has come to its
\* chapter check with a chapter in progress that holds some number of
\* interactions, with or without a recent plot point, key moments of the
\* pair, a resolution in the last interactions and a lull.  The chapter is
\* the first of the run or the second, and the moments of a second chapter
\* happened in it or in the first chapter.
\* ----------------------------------------------------------------------

\* A chapter written earlier in the run.
past_chapter(number) ==
    [number |-> number, start_step |-> 4 * (number - 1),
     end_step |-> 4 * number, interactions |-> MinInteractions,
     events |-> 1]

\* The interaction counts around the floor and the cap.
InteractionCounts ==
    {0, MinInteractions - 1, MinInteractions, MaxInteractions - 1,
     MaxInteractions, MaxInteractions + 1}

\* The significance, in hundredths, of the significant moment the chapter
\* has seen, if any: 0.5 is below both thresholds, 0.55 above that of the
\* relationships only, 0.7 above both.
Moments == {{}, {50}, {55}, {70}}

\* The chapter in progress the Overseer holds.
chapter_in_progress(count, plot_step, resolved, calm) ==
    [interactions |-> count, events |-> 1,
     plot_points |-> IF plot_step = NoTime THEN <<>>
                     ELSE <<[step |-> plot_step, significance |-> 80]>>,
     emotional_beats |-> IF plot_step = NoTime THEN <<>>
                         ELSE <<[step |-> plot_step,
                                 emotional_intensity |-> 80]>>,
     last_interactions |->
         IF count = 0 THEN <<>>
         ELSE [i \in 1..Min(count, 3) |->
                  [content |-> IF resolved /\ i = 1 THEN {"peace"} ELSE {},
                   sentiment |->
                       IF calm
                       THEN [k \in {"emotional_intensity"} |-> 30]
                       ELSE <<>>]],
     start_step |-> 0]

DecisionInit ==
    /\ MemoryManagerConstructed
    /\ actions_decided = <<>>
    /\ nearby_query = NoNearby
    /\ interaction_history = <<>>
    /\ event_history = <<>>
    /\ CollaboratorsUp
    /\ locations = StoryLocs
    /\ location_graph = [l \in StoryLocs |-> <<>>]
    /\ connected_locations = [l \in StoryLocs |-> <<>>]
    /\ story_agents = <<1, 2>>
    /\ current_agents = [l \in StoryLocs |-> IF l = "A" THEN {1, 2} ELSE {}]
    /\ current_step = FlakyStep
    /\ current_time = FlakyStep - 1
    /\ agents = [a \in {1, 2} |-> seasoned_agent(a, 12)]
    /\ narrator = seasoned_narrator(agents)
    /\ \E count \in InteractionCounts,
          plot_step \in {NoTime, FlakyStep - 4, FlakyStep - 3},
          moment \in Moments, resolved \in BOOLEAN, calm \in BOOLEAN,
          written \in {0, 1},
          moment_step \in {past_chapter(1).end_step - 2, FlakyStep - 2} :
          /\ count = 0 => plot_step = NoTime /\ moment = {} /\ ~resolved
          /\ count = 0 => written = 0
          /\ (written = 0 \/ moment = {}) => moment_step = FlakyStep - 2
          /\ chapters = [n \in 1..written |-> past_chapter(n)]
          /\ current_chapter_content =
                [chapter_in_progress(count, plot_step, resolved, calm)
                 EXCEPT !.start_step =
                            IF written = 0 THEN 0
                            ELSE past_chapter(written).end_step]
          /\ story_metadata = [current_chapter |-> written + 1,
                               total_interactions |->
                                   count + written * MinInteractions,
                               major_events |-> <<>>]
          /\ character_arcs =
                IF count = 0 THEN <<>>
                ELSE [n \in {agent_name(1), agent_name(2)} |->
                         [new_arc EXCEPT
                             !.interactions =
                                 count + written * MinInteractions,
                             !.key_moments =
                                 {[time |-> moment_step, significance |-> m] :
                                     m \in moment}]]
          /\ character_relationship_changes =
                IF count = 0 THEN <<>>
                ELSE [k \in {{agent_name(1), agent_name(2)}} |->
                         [interaction_count |->
                              count + written * MinInteractions,
                          significant_moments |->
                              {[step |-> moment_step, significance |-> m] :
                                  m \in moment}]]
    /\ chapter_decision = NoChapterDecision
    /\ scheduled_events = <<>>
    /\ drain = NoDrain
    /\ moved = NoMove
    /\ path_query = NoQuery
    /\ pc = "chapter"
    /\ max_time_steps = DefaultMaxTimeSteps
    /\ simulation_running = TRUE
    /\ run_outcome = "running"
    /\ interactions_this_step = <<>>
    /\ events_this_step = <<>>
    /\ agents_copy = <<>>
    /\ interacted_agents = {}
    /\ phase_log = <<"events", "interactions", "actions", "update",
                    "narrator", "introduction", "overseer">>
    /\ decision = NoDecision

DecisionNext == ChapterCheck

SpecDecision == DecisionInit /\ [][DecisionNext]_vars

\* ----------------------------------------------------------------------
\* The ending readiness on its own: step 15 of a run has come to its
\* ending check, before the step limit and before stagnation can end the
\* run, with two or three chapters written, 19 or 20 interactions seen,
\* agents that know each other or not and have grown or not, and major
\* events that speak of a resolution or not.
\* ----------------------------------------------------------------------

\* The last major events the Overseer has recorded, oldest first.
MajorEvents ==
    {<<>>,
     <<[description |-> "A Resolution"]>>,
     <<[description |-> "storm"]>>,
     <<[description |-> "A Resolution"], [description |-> "storm"],
       [description |-> "storm"]>>,
     <<[description |-> "storm"], [description |-> "storm"],
       [description |-> "storm"]>>}

ReadinessInit ==
    /\ MemoryManagerConstructed
    /\ actions_decided = <<>>
    /\ nearby_query = NoNearby
    /\ interaction_history = <<>>
    /\ event_history = <<>>
    /\ CollaboratorsUp
    /\ locations = StoryLocs
    /\ location_graph = [l \in StoryLocs |-> <<>>]
    /\ connected_locations = [l \in StoryLocs |-> <<>>]
    /\ story_agents \in {<<1, 2>>, <<1, 2, 3>>}
    /\ current_agents = [l \in StoryLocs |->
                            IF l = "A" THEN 1..Len(story_agents) ELSE {}]
    /\ current_step = FlakyStep
    /\ current_time = FlakyStep - 1
    /\ \E knows \in [1..Len(story_agents) -> BOOLEAN],
          grown \in [1..Len(story_agents) -> 0..2] :
          /\ agents = [a \in 1..Len(story_agents) |->
                [seasoned_agent(a, 12) EXCEPT
                    !.name = agent_name(a),
                    !.relationships =
                        IF knows[a]
                        THEN [n \in {agent_name(b) :
                                        b \in 1..Len(story_agents) \ {a}}
                                 |-> 300]
                        ELSE <<>>]]
          /\ character_arcs =
                [n \in {agent_name(a) :
                           a \in {b \in 1..Len(story_agents) : grown[b] > 0}}
                    |-> [new_arc EXCEPT
                            !.interactions = 1,
                            !.character_growth =
                                grown[CHOOSE a \in 1..Len(story_agents) :
                                          agent_name(a) = n]]]
    /\ narrator = seasoned_narrator(agents)
    /\ \E written \in {2, 3}, total \in {19, 20}, major \in MajorEvents :
          /\ chapters = [i \in 1..written |-> past_chapter(i)]
          /\ story_metadata = [current_chapter |-> written + 1,
                               total_interactions |-> total,
                               major_events |-> major]
          /\ current_chapter_content =
                [chapter_content(4 * written) EXCEPT
                    !.interactions = total - MinInteractions * written]
    /\ character_relationship_changes = <<>>
    /\ chapter_decision = NoChapterDecision
    /\ scheduled_events = <<>>
    /\ drain = NoDrain
    /\ moved = NoMove
    /\ path_query = NoQuery
    /\ pc = "ending"
    /\ max_time_steps = DefaultMaxTimeSteps
    /\ simulation_running = TRUE
    /\ run_outcome = "running"
    /\ interactions_this_step = <<>>
    /\ events_this_step = <<>>
    /\ agents_copy = <<>>
    /\ interacted_agents = {}
    /\ phase_log = <<"events", "interactions", "actions", "update",
                    "narrator", "introduction", "overseer", "chapter">>
    /\ decision = NoDecision

ReadinessNext == EndingCheck

SpecReadiness == ReadinessInit /\ [][ReadinessNext]_vars

\* ----------------------------------------------------------------------
\* The Narrator over consecutive steps: a run has done step 10, two steps
\* after the Narrator's last event, and goes on through the steps up to
\* step FlakyStep - 1.  Its three agents have not met and cannot meet: one
\* is at each location and the third, introduced with a starting location
\* the world does not have, is at none; they are rested or nearly so.
\* ----------------------------------------------------------------------

\* The narrator two steps after the event it executed in step 8.
cooled_narrator(ags, step) ==
    [analyze_story_state(
         [steps_since_last_event |-> 1,
          event_history |-> <<step - 6, step - 3>>,
          interaction_density |-> Fraction(0, 1),
          emotional_variety |-> Fraction(0, 1),
          relationship_velocity |-> Fraction(0, 1),
          stagnation_score |-> Fraction(0, 1)],
         ags, step)
     EXCEPT !.steps_since_last_event = 2]

CooldownInit ==
    /\ MemoryManagerConstructed
    /\ actions_decided = <<>>
    /\ nearby_query = NoNearby
    /\ interaction_history = <<>>
    /\ event_history = <<>>
    /\ CollaboratorsUp
    /\ OverseerConstructed
    /\ locations = StoryLocs
    /\ location_graph = [l \in StoryLocs |-> <<>>]
    /\ connected_locations = [l \in StoryLocs |-> <<>>]
    /\ story_agents = <<1, 2, 3>>
    /\ current_step = FlakyStep - MaxLaterSteps - 1
    /\ current_time = current_step
    /\ current_agents = [l \in StoryLocs |->
                            IF l = "A" THEN {1} ELSE {2}]
    /\ \E energy \in {FullEnergy - 1, FullEnergy} :
          agents = [a \in {1, 2, 3} |->
                       worn_agent(agent_name(a), {},
                                  IF a = 1 THEN "A"
                                  ELSE IF a = 2 THEN "B" ELSE NoLoc,
                                  energy, NoTime, <<>>)]
    /\ narrator = cooled_narrator(agents, current_step)
    /\ chapter_decision = NoChapterDecision
    /\ scheduled_events = <<>>
    /\ drain = NoDrain
    /\ moved = NoMove
    /\ path_query = NoQuery
    /\ pc = "loop"
    /\ max_time_steps = DefaultMaxTimeSteps
    /\ simulation_running = TRUE
    /\ run_outcome = "running"
    /\ interactions_this_step = <<>>
    /\ events_this_step = <<>>
    /\ agents_copy = <<>>
    /\ interacted_agents = {}
    /\ phase_log = <<>>
    /\ decision = NoDecision

CooldownNext ==
    \/ BeginStep
    \/ ProcessEvents
    \/ BeginInteractions
    \/ PairAgent
    \/ ProcessAgentActions
    \/ UpdateAgentStates
    \/ NarratorPhase
    \/ IntroductionPhase
    \/ OverseerPhase
    \/ ChapterCheck
    \/ EndingCheck
    \/ AdvanceClock

SpecCooldown == CooldownInit /\ [][CooldownNext]_vars

\* ----------------------------------------------------------------------
\* MemoryManager, SimpleMemoryStore and AgentMemoryInterface: the memory
\* operations on their own, as the setup test of the repository makes them
\* on a manager of its own.  A memory is kept by its id, its content and
\* the type its metadata names; its timestamps are not followed.
\* ----------------------------------------------------------------------

\* memory_management.py:41  the memories the store keeps per agent
StoreCap == 100

\* The memories an agent adds that are followed.
MaxMemories == 2

\* The largest limit a read is followed with.
MaxLimit == 2

\* The agents that remember, and an agent the store has never heard of.
MemoryAgents == {"n1", "n2"}
Thoughts == {"t1", "t2"}

\* list[-n:] for n >= 0: the last n entries, and the whole list for n = 0
last_entries(list, n) ==
    IF n = 0 THEN list
    ELSE SubSeq(list, Max(1, Len(list) - n + 1), Len(list))

\* list[:n] for n >= 0
first_entries(list, n) == SubSeq(list, 1, Min(n, Len(list)))

\* list[::-1]
reversed(list) == [i \in 1..Len(list) |-> list[Len(list) + 1 - i]]

\* SimpleMemoryStore.add_memory(agent_id, content, metadata)
store_add_memory(store, agent_id, content, metadata) ==
    LET counter == store.memory_counter + 1
        memory == [id |-> <<agent_id, counter>>, content |-> content,
                   metadata |-> metadata]
        held == Append(get(store.memories, agent_id, <<>>), memory)
        kept == IF Len(held) > StoreCap THEN last_entries(held, StoreCap)
                ELSE held
    IN [store |-> [memories |-> put(store.memories, agent_id, kept),
                   memory_counter |-> counter],
        memory_id |-> memory.id]

\* The mutation of the read: the memories come oldest first.
store_get_memories_oldest_first(store, agent_id, limit) ==
    IF agent_id \notin DOMAIN store.memories THEN <<>>
    ELSE last_entries(store.memories[agent_id], limit)

\* SimpleMemoryStore.get_memories(agent_id, limit), lines 47-53
store_get_memories(store, agent_id, limit) ==
    IF agent_id \notin DOMAIN store.memories THEN <<>>
    ELSE reversed(last_entries(store.memories[agent_id], limit))

\* MemoryManager.add_memory(agent_id, memory_content, memory_type, metadata):
\* the store gets memory_data, which names the type, as the metadata.  The
\* manager's own agent_memories and memory_counter are written and never
\* read by the operations followed.
add_memory(store, agent_id, memory_content, memory_type) ==
    store_add_memory(store, agent_id, memory_content, [type |-> memory_type])

\* MemoryManager.get_memories(agent_id, memory_type, limit)
get_memories(store, agent_id, memory_type, limit) ==
    LET memories == store_get_memories(store, agent_id, limit * 2)
        of_type == IF memory_type # None
                   THEN SelectSeq(memories,
                                  LAMBDA m : m.metadata.type = memory_type)
                   ELSE memories
    IN first_entries(of_type, limit)

\* MemoryManager.get_memory_summary(agent_id), without the timestamps
get_memory_summary(store, agent_id) ==
    LET memories == get_memories(store, agent_id, None, 1000)
        types == {memories[i].metadata.type : i \in 1..Len(memories)}
    IN [total_memories |-> Len(memories),
        memory_types |->
            [ty \in types |->
                Cardinality({i \in 1..Len(memories) :
                                memories[i].metadata.type = ty})]]

\* A store loaded from a memory file that holds count memories of an agent.
loaded_memories(agent_id, count, first_id) ==
    [i \in 1..count |->
        [id |-> <<agent_id, first_id + i - 1>>, content |-> "old",
         metadata |-> [type |-> "observation"]]]

\* what the memory operations leave alone
memoryOther == <<queueVars, placeVars, graphVars, drain, moved, path_query,
                 pc, current_step, max_time_steps, simulation_running,
                 run_outcome, interactions_this_step, events_this_step,
                 agents_copy, interacted_agents, phase_log, decision,
                 narrator, overseerVars, collaborators, failed_calls, runs,
                 actions_decided, nearby_query, interaction_history,
                   event_history>>

\* A manager made over a memory file in which n2 has one memory and n1
\* none, nearly a full store or a full store.
MemoryInit ==
    /\ actions_decided = <<>>
    /\ nearby_query = NoNearby
    /\ interaction_history = <<>>
    /\ event_history = <<>>
    /\ EngineConstructed
    /\ NarratorConstructed
    /\ CollaboratorsUp
    /\ OverseerConstructed
    /\ current_time = 0
    /\ scheduled_events = <<>>
    /\ drain = NoDrain
    /\ locations = {}
    /\ current_agents = <<>>
    /\ story_agents = <<>>
    /\ agents = <<>>
    /\ moved = NoMove
    /\ location_graph = <<>>
    /\ connected_locations = <<>>
    /\ path_query = NoQuery
    /\ \E count \in {0, StoreCap - 1, StoreCap} :
          memory_store =
              [memories |->
                   IF count = 0
                   THEN [a \in {"n2"} |-> loaded_memories("n2", 1, 1)]
                   ELSE [a \in MemoryAgents |->
                            IF a = "n2" THEN loaded_memories("n2", 1, 1)
                            ELSE loaded_memories("n1", count, 2)],
               memory_counter |-> count + 1]
    /\ recall = NoRecall

\* The memories followed are the first MaxMemories of a store and the
\* first MaxMemories around a store that is full.
may_remember(store) ==
    store.memory_counter
        < (IF store.memory_counter >= StoreCap THEN StoreCap ELSE 0)
          + MaxMemories

\* A remember_* call of the interface: the try of the method around
\* add_memory, which raises nothing.
remembered(op, agent_id, content, memory_type) ==
    LET added == add_memory(memory_store, agent_id, content, memory_type)
    IN /\ memory_store' = added.store
       /\ recall' = [op |-> op, agent_id |-> agent_id, content |-> content,
                     limit |-> 0, raised |-> FALSE, returned |-> <<>>,
                     memory_id |-> added.memory_id,
                     summary |-> [total_memories |-> 0,
                                  memory_types |-> <<>>]]

\* AgentMemoryInterface.remember_thought(thought)
RememberThought ==
    /\ may_remember(memory_store)
    /\ \E agent_id \in MemoryAgents, thought \in Thoughts :
          remembered("remember_thought", agent_id, thought, "thought")
    /\ UNCHANGED memoryOther

\* AgentMemoryInterface.remember_interaction(other, content, location)
RememberInteraction ==
    /\ may_remember(memory_store)
    /\ \E agent_id \in MemoryAgents :
          remembered("remember_interaction", agent_id,
                     "Interaction with n3 at A: hello", "interaction")
    /\ UNCHANGED memoryOther

\* AgentMemoryInterface.remember_observation(observation, location)
RememberObservation ==
    /\ may_remember(memory_store)
    /\ \E agent_id \in MemoryAgents :
          remembered("remember_observation", agent_id,
                     "Observed at A: storm", "observation")
    /\ UNCHANGED memoryOther

\* AgentMemoryInterface.get_recent_memories(limit)
GetRecentMemories ==
    /\ \E agent_id \in MemoryAgents \cup {"n3"}, limit \in 0..MaxLimit :
          recall' = [op |-> "get_recent_memories", agent_id |-> agent_id,
                     content |-> None, limit |-> limit, raised |-> FALSE,
                     returned |-> get_memories(memory_store, agent_id, None,
                                               limit),
                     memory_id |-> None,
                     summary |-> [total_memories |-> 0,
                                  memory_types |-> <<>>]]
    /\ UNCHANGED memory_store
    /\ UNCHANGED memoryOther

\* AgentMemoryInterface.get_memory_summary()
GetMemorySummary ==
    /\ \E agent_id \in MemoryAgents \cup {"n3"} :
          recall' = [op |-> "get_memory_summary", agent_id |-> agent_id,
                     content |-> None, limit |-> 0, raised |-> FALSE,
                     returned |-> <<>>, memory_id |-> None,
                     summary |-> get_memory_summary(memory_store, agent_id)]
    /\ UNCHANGED memory_store
    /\ UNCHANGED memoryOther

MemoryNext ==
    \/ RememberThought
    \/ RememberInteraction
    \/ RememberObservation
    \/ GetRecentMemories
    \/ GetMemorySummary

SpecMemory == MemoryInit /\ [][MemoryNext]_vars

\* ----------------------------------------------------------------------
\* analyze_story_state on its own: the Narrator has gone some steps without
\* an event, each of two agents last interacted four, three or two steps
\* before step FlakyStep or never did, and phase 5 of the step analyses.
\* ----------------------------------------------------------------------

\* The most steps without an event the Narrator is analysed after.
MaxQuiet == 11

StagnationInit ==
    /\ MemoryManagerConstructed
    /\ actions_decided = <<>>
    /\ nearby_query = NoNearby
    /\ interaction_history = <<>>
    /\ event_history = <<>>
    /\ CollaboratorsUp
    /\ OverseerConstructed
    /\ locations = StoryLocs
    /\ location_graph = [l \in StoryLocs |-> <<>>]
    /\ connected_locations = [l \in StoryLocs |-> <<>>]
    /\ story_agents = <<1, 2>>
    /\ current_step = FlakyStep
    /\ current_time = FlakyStep - 1
    /\ current_agents = [l \in StoryLocs |-> IF l = "A" THEN {1} ELSE {2}]
    /\ \E last \in [{1, 2} -> {NoTime, FlakyStep - 4, FlakyStep - 3,
                               FlakyStep - 2}] :
          agents = [a \in {1, 2} |->
                       worn_agent(agent_name(a), {},
                                  IF a = 1 THEN "A" ELSE "B",
                                  FullEnergy - 1, last[a], <<>>)]
    /\ \E quiet \in 0..MaxQuiet :
          narrator = [steps_since_last_event |-> quiet,
                      event_history |-> <<>>,
                      interaction_density |-> Fraction(0, 1),
                      emotional_variety |-> Fraction(1, 5),
                      relationship_velocity |-> Fraction(0, 1),
                      stagnation_score |-> Fraction(0, 1)]
    /\ chapter_decision = NoChapterDecision
    /\ scheduled_events = <<>>
    /\ drain = NoDrain
    /\ moved = NoMove
    /\ path_query = NoQuery
    /\ pc = "narrator"
    /\ max_time_steps = DefaultMaxTimeSteps
    /\ simulation_running = TRUE
    /\ run_outcome = "running"
    /\ interactions_this_step = <<>>
    /\ events_this_step = <<>>
    /\ agents_copy = <<>>
    /\ interacted_agents = {}
    /\ phase_log = <<"events", "interactions", "actions", "update">>
    /\ decision = NoDecision

StagnationNext == NarratorPhase

SpecStagnation == StagnationInit /\ [][StagnationNext]_vars

\* ----------------------------------------------------------------------
\* The state update on its own: step 15 of a run has come to phase 4 with
\* two agents at A that are rested, tired, or worn down to the least energy
\* the steps before can have left them, and that have interacted in the
\* step or not; the Narrator's phase follows.
\* ----------------------------------------------------------------------

\* The energy levels, in twentieths, the agents come to the phase with.
Energies == {2, 3, 15, FullEnergy}

EnergyInit ==
    /\ MemoryManagerConstructed
    /\ actions_decided = <<>>
    /\ nearby_query = NoNearby
    /\ interaction_history = <<>>
    /\ event_history = <<>>
    /\ CollaboratorsUp
    /\ OverseerConstructed
    /\ locations = StoryLocs
    /\ location_graph = [l \in StoryLocs |-> <<>>]
    /\ connected_locations = [l \in StoryLocs |-> <<>>]
    /\ story_agents = <<1, 2>>
    /\ current_step = FlakyStep
    /\ current_time = FlakyStep - 1
    /\ current_agents = [l \in StoryLocs |-> IF l = "A" THEN {1, 2} ELSE {}]
    /\ \E energy \in [{1, 2} -> Energies], interacted \in BOOLEAN :
          \* the initiator of an interaction had the energy to initiate
          /\ interacted => energy[1] >= 6
          /\ agents = [a \in {1, 2} |->
                          worn_agent(agent_name(a), {}, "A", energy[a],
                                     IF interacted THEN FlakyStep
                                     ELSE NoTime, <<>>)]
          /\ interactions_this_step =
                IF interacted THEN <<past_interaction(FlakyStep, {})>>
                ELSE <<>>
    /\ narrator = cooled_narrator(agents, FlakyStep - 1)
    /\ chapter_decision = NoChapterDecision
    /\ scheduled_events = <<>>
    /\ drain = NoDrain
    /\ moved = NoMove
    /\ path_query = NoQuery
    /\ pc = "update"
    /\ max_time_steps = DefaultMaxTimeSteps
    /\ simulation_running = TRUE
    /\ run_outcome = "running"
    /\ events_this_step = <<>>
    /\ agents_copy = <<>>
    /\ interacted_agents = {}
    /\ phase_log = <<"events", "interactions", "actions">>
    /\ decision = NoDecision

EnergyNext == UpdateAgentStates \/ NarratorPhase

SpecEnergy == EnergyInit /\ [][EnergyNext]_vars

\* ----------------------------------------------------------------------
\* The introduction of a character on its own: the introduction phase of
\* step FlakyStep of a run of two agents that have or have not met at this
\* step, with a reply whose name nothing has compared with the names of
\* story_agents.
\* ----------------------------------------------------------------------

\* What generate_new_character returns when the name of the profile is
\* free: required fields are checked for presence only, so the name may be
\* the name of an agent of the story.
AnyNameProfiles ==
    {[name |-> n, personality_traits |-> {},
      starting_location |-> l, relationships |-> r] :
        n \in {agent_name(3), agent_name(1)},
        l \in {"A", NoLoc},
        r \in {<<>>, put(<<>>, agent_name(1), 1500)}}

\* The scores two agents that have met hold for each other.
MetScores == {20, -1000}

\* What the two agents may have said when they met at this step, as the
\* keywords of it: nothing of weight, a significant exchange (0.6), one
\* above the plot threshold (0.9).
MetContents == {{}, {"love", "hate"}, {"love", "hate", "betrayal"}}

IntroductionInit ==
    /\ MemoryManagerConstructed
    /\ actions_decided = <<>>
    /\ nearby_query = NoNearby
    /\ interaction_history = <<>>
    /\ event_history = <<>>
    /\ NarratorConstructed
    /\ CollaboratorsUp
    /\ OverseerConstructed
    /\ locations = StoryLocs
    /\ location_graph = [l \in StoryLocs |-> <<>>]
    /\ connected_locations = [l \in StoryLocs |-> <<>>]
    /\ story_agents = <<1, 2>>
    /\ current_step = FlakyStep
    /\ current_time = FlakyStep - 1
    /\ \E where \in StoryLocs, traits \in {{}, {"outgoing"}},
          met \in BOOLEAN, score \in MetScores, content \in MetContents :
          /\ (~met) => (score = 20 /\ content = {})
          /\ interactions_this_step =
                IF met THEN <<past_interaction(FlakyStep, content)>> ELSE <<>>
          /\ agents = [a \in {1, 2} |->
                          worn_agent(agent_name(a),
                                     IF a = 1 THEN traits ELSE {},
                                     IF a = 1 THEN "A" ELSE where, FullEnergy,
                                     IF met THEN FlakyStep ELSE NoTime,
                                     IF met
                                     THEN put(<<>>, agent_name(3 - a), score)
                                     ELSE <<>>)]
          /\ current_agents =
                [l \in StoryLocs |-> {a \in {1, 2} : agents[a].location = l}]
    /\ scheduled_events = <<>>
    /\ drain = NoDrain
    /\ moved = NoMove
    /\ path_query = NoQuery
    /\ pc = "introduction"
    /\ max_time_steps = DefaultMaxTimeSteps
    /\ simulation_running = TRUE
    /\ run_outcome = "running"
    /\ events_this_step = <<>>
    /\ agents_copy = <<>>
    /\ interacted_agents = {}
    /\ phase_log = <<"events", "interactions", "actions", "update", "narrator">>
    /\ decision = NoDecision

\* Phase 5.5 with a reply that may name anybody.
IntroductionAnyName == IntroductionWith(AnyNameProfiles)

IntroductionNext == IntroductionAnyName \/ OverseerPhase

SpecIntroduction == IntroductionInit /\ [][IntroductionNext]_vars

\* ----------------------------------------------------------------------
\* C3: every relationship score in any agent's relationships map lies in
\* [-1.0, 1.0], after the updates of an interaction and after the seeding
\* of introduce_new_character.
ScoresInRange ==
    \A a \in DOMAIN agents :
        \A n \in DOMAIN agents[a].relationships :
            /\ agents[a].relationships[n] >= -1000
            /\ agents[a].relationships[n] <= 1000

\* ----------------------------------------------------------------------
\* C5: a run with max_time_steps = N >= 1 and no other ending condition
\* is over with current_step = N and with a final chapter that ends at
\* step N in the Overseer's chapters.
RunEndsWithFinalChapter ==
    (pc = "finished" /\ max_time_steps \in 1..MaxSteps) =>
        /\ current_step = max_time_steps
        /\ chapters # <<>>
        /\ chapters[Len(chapters)].end_step = max_time_steps

\* The phases of run_simulation_step in the order of the step function.
PhaseOrder ==
    <<"events", "interactions", "actions", "update", "narrator",
      "introduction", "overseer", "chapter", "ending", "advance">>

\* The phases that come before a phase.
PhasesBefore(phase) ==
    SubSeq(PhaseOrder, 1,
           (CHOOSE i \in 1..Len(PhaseOrder) : PhaseOrder[i] = phase) - 1)

\* ----------------------------------------------------------------------
\* C6: the phases of a step occur in the fixed order events, interactions,
\* solo actions, state update, narrator (with intervention and character
\* introduction), Overseer, chapter check, ending check, clock advance: a
\* phase starts when exactly the phases before it have been performed, and
\* the clock advances by 1 only as the last act of a step whose ending
\* check was false.
PhasesInOrder ==
    /\ [](/\ InSeq(pc, PhaseOrder) => phase_log = PhasesBefore(pc)
          /\ pc = "pairing" => phase_log = PhasesBefore("actions")
          /\ pc = "loop" /\ phase_log # <<>> => phase_log = PhaseOrder)
    /\ [][current_time' # current_time =>
             /\ phase_log = PhasesBefore("advance")
             /\ phase_log' = PhaseOrder
             /\ current_time' = current_time + 1
             /\ current_step < max_time_steps
             /\ run_outcome = "running"]_vars

\* A step that performed all its phases and advanced the clock.
PhasesInOrderWitness ==
    /\ pc = "loop"
    /\ phase_log = PhaseOrder
    /\ current_step = 1
    /\ current_time = 1

EndsIffConditionHolds ==
    /\ [][pc = "ending" =>
             ((/\ pc' = "finished"
               /\ run_outcome' = "completed"
               /\ ~simulation_running')
              <=> (\/ current_step >= max_time_steps
                   \/ detect_ending_readiness(chapters, story_metadata,
                                              agents, character_arcs)
                   \/ (detect_stagnation(narrator, agents)
                       /\ current_step > 20)))]_vars
    /\ [][(pc' = "finished" /\ pc \notin {"finished", "loop"}) =>
             pc = "ending"]_vars

\* ----------------------------------------------------------------------
\* C12: among the interactions recorded in one step no agent is a
\* participant of two, no initiator is its own target, and the initiator
\* and the target of an interaction were at the same location when they
\* were paired.
PairsAreDisjoint ==
    /\ [](\A i \in 1..Len(interactions_this_step) :
             /\ interactions_this_step[i].initiator
                    # interactions_this_step[i].target
             /\ \A j \in 1..Len(interactions_this_step) :
                   i # j =>
                      {interactions_this_step[i].initiator,
                       interactions_this_step[i].target}
                      \cap {interactions_this_step[j].initiator,
                            interactions_this_step[j].target} = {})
    /\ [][\A i \in (Len(interactions_this_step) + 1)
                     ..Len(interactions_this_step') :
             agents[agent_named(interactions_this_step'[i].initiator)].location
             = agents[agent_named(interactions_this_step'[i].target)].location]_vars

\* Three agents share a location: two were paired, and the third, visited
\* last, wanted to initiate and found nobody left.
PairsAreDisjointWitness ==
    /\ Len(story_agents) = 3
    /\ \A a \in DOMAIN agents : agents[a].location = "A"
    /\ Len(interactions_this_step) = 1
    /\ decision.called /\ decision.result
    /\ agents[decision.agent].name \notin interacted_agents
    /\ agents_copy = <<>>

FailureNeverAbortsStep ==
    /\ [][failed_calls' # failed_calls /\ failed_calls' # {} =>
             /\ pc' = next_phase(pc)
             /\ phase_log' = Append(phase_log, pc)
             /\ run_outcome' = run_outcome
             /\ simulation_running' = simulation_running]_vars
    /\ [][failed_calls # {} /\ pc' = "finished" =>
             pc \in {"chapter", "ending"} /\ failed_calls' = failed_calls]_vars
    /\ [](failed_calls # {} /\ pc = "loop" =>
             /\ phase_log = PhaseOrder
             /\ current_time = current_step)

\* A step in which the generation of a solo action, of the Narrator's event
\* and of the chapter summary and a memory write all failed has advanced
\* the clock.
FailureNeverAbortsStepWitness ==
    /\ {"solo_action", "event", "chapter", "memory"} \subseteq failed_calls
    /\ pc = "loop"
    /\ current_time = FlakyStep
    /\ Len(chapters) = 1
    /\ narrator.steps_since_last_event = 0

ChapterClosesByScore ==
    [][pc = "chapter" =>
          LET count == current_chapter_content.interactions
              ending_score ==
                  float_sum(<<major_plot_point(current_chapter_content,
                                               current_step),
                              emotional_climax(current_chapter_content,
                                               current_step),
                              character_development(character_arcs),
                              relationship_changes(
                                  character_relationship_changes),
                              conflict_resolution(current_chapter_content),
                              natural_pause(current_chapter_content)>>)
          IN /\ chapter_decision'.asked
             /\ count < 8 => ~chapter_decision'.should_end
             /\ count >= 25 => chapter_decision'.should_end
             /\ (count >= 8 /\ count < 25) =>
                   /\ chapter_decision'.should_end <=> ending_score >= 600
                   /\ ending_score >= 800 =>
                         chapter_decision'.urgency = "high"
                   /\ (ending_score >= 600 /\ ending_score < 800) =>
                         chapter_decision'.urgency = "medium"]_vars

\* A chapter of exactly 8 interactions whose signals add up to 0.6 or a
\* little more has been closed with urgency medium.
ChapterClosesByScoreWitness ==
    /\ chapter_decision.asked
    /\ chapter_decision.interactions_count = 8
    /\ chapter_decision.should_end
    /\ chapter_decision.urgency = "medium"
    /\ chapter_decision.ending_score \in 600..601
    /\ Len(chapters) = 1
    /\ pc = "ending"

\* ----------------------------------------------------------------------
\* C18: detect_ending_readiness returns true if and only if at least 4 of
\* these 5 gates hold: at least 3 chapters written; the agents' relationship
\* entries number at least as many as the agents; at least 20 interactions
\* in total; at least 70% of the agents have 2 or more growth events; one
\* of the last 3 major events has a description containing "resolution".
\* The ending check of a step before the step limit and before step 21
\* ends the run exactly when the function returns true.
\* ----------------------------------------------------------------------
ReadyIffFourGates ==
    [][(pc = "ending" /\ current_step < max_time_steps /\ current_step <= 20)
          =>
          LET ids == DOMAIN agents
              enough_chapters == Len(chapters) >= 3
              enough_relationships ==
                  Sum([a \in ids |->
                          Cardinality(DOMAIN agents[a].relationships)], ids)
                      >= Cardinality(ids)
              enough_interactions == story_metadata.total_interactions >= 20
              grown_agents ==
                  {a \in ids :
                      /\ agents[a].name \in DOMAIN character_arcs
                      /\ character_arcs[agents[a].name].character_growth >= 2}
              enough_growth ==
                  100 * Cardinality(grown_agents) >= 70 * Cardinality(ids)
              resolved ==
                  \E i \in 1..Len(story_metadata.major_events) :
                     /\ i > Len(story_metadata.major_events) - 3
                     /\ story_metadata.major_events[i].description
                            = "A Resolution"
              gates == {g \in {<<1, enough_chapters>>,
                               <<2, enough_relationships>>,
                               <<3, enough_interactions>>,
                               <<4, enough_growth>>,
                               <<5, resolved>>} : g[2]}
          IN /\ detect_ending_readiness(chapters, story_metadata, agents,
                                        character_arcs)
                   <=> Cardinality(gates) >= 4
             /\ pc' = "finished" <=> Cardinality(gates) >= 4]_vars

\* The ending check has ended a run on exactly four gates: three chapters,
\* 20 interactions, three agents of whom all have grown twice, enough
\* relationship entries, and no major event that speaks of a resolution.
ReadyIffFourGatesWitness ==
    /\ pc = "finished"
    /\ phase_log = <<"events", "interactions", "actions", "update",
                     "narrator", "introduction", "overseer", "chapter",
                     "ending">>
    /\ current_step < max_time_steps
    /\ Len(chapters) = 3
    /\ story_metadata.total_interactions = 20
    /\ Len(story_agents) = 3
    /\ \A n \in DOMAIN character_arcs : character_arcs[n].character_growth = 2
    /\ Cardinality(DOMAIN character_arcs) = 3
    /\ Len(story_metadata.major_events) = 3
    /\ \A i \in 1..3 : story_metadata.major_events[i].description = "storm"

\* ----------------------------------------------------------------------
\* C19: after the Narrator executes an event in a step,
\* evaluate_intervention_need returns "none" in the next two steps whatever
\* the health score, and no event is executed in them, so that any two
\* events the Narrator executes are at least 3 steps apart; executing an
\* event resets steps_since_last_event to 0.
\* ----------------------------------------------------------------------
NarratorCoolsDown ==
    /\ [][(/\ pc = "narrator"
           /\ narrator.event_history # <<>>
           /\ current_time
                 - narrator.event_history[Len(narrator.event_history)]
                 \in {1, 2}) =>
             /\ evaluate_intervention_need(
                    analyze_story_state(narrator, agents, current_step))
                   = "none"
             /\ narrator'.event_history = narrator.event_history]_vars
    /\ [](\A i, j \in DOMAIN narrator.event_history :
             i < j => narrator.event_history[j] - narrator.event_history[i]
                         >= 3)
    /\ [][narrator'.event_history # narrator.event_history =>
             /\ pc = "narrator"
             /\ narrator'.event_history =
                   Append(narrator.event_history, current_time)
             /\ narrator'.steps_since_last_event = 0]_vars

\* The Narrator has executed events in two steps of the run, the first
\* step the run was followed for and the step 3 steps after it.
NarratorCoolsDownWitness ==
    /\ Len(narrator.event_history) = 4
    /\ narrator.event_history[3] = FlakyStep - MaxLaterSteps - 1
    /\ narrator.event_history[4] = narrator.event_history[3] + 3
    /\ narrator.steps_since_last_event = 0
    /\ pc = "introduction"

\* ----------------------------------------------------------------------
\* C20: should_initiate_interaction, called as the engine calls it with the
\* full agent list, returns false for every random draw when no other
\* agent shares the agent's location, and returns false when the agent's
\* last interaction was fewer than 2 steps ago.
\* ----------------------------------------------------------------------
LoneAgentNeverInitiates ==
    [](decision.called =>
          /\ decision.others_here = 0 => ~decision.result
          /\ (/\ decision.last_interaction_time # NoTime
              /\ decision.current_time - decision.last_interaction_time < 2)
                => ~decision.result)

\* The events a drain of the queue before at the time now returned are the
\* events of entries of the queue that were due, taken in queue order and
\* in non-decreasing fire time order.
in_fire_time_order(before, now, returned) ==
    \E picked \in [1..Len(returned) -> 1..Len(before)] :
       /\ \A i, j \in DOMAIN picked :
             i < j => /\ picked[i] < picked[j]
                      /\ before[picked[i]].time <= before[picked[j]].time
       /\ \A i \in DOMAIN picked :
             /\ before[picked[i]].event = returned[i]
             /\ before[picked[i]].time <= now

\* ----------------------------------------------------------------------
\* C21: after any sequence of schedule_event, advance_time and
\* process_scheduled_events calls the queue is sorted by non-decreasing
\* fire time, the fire time of an entry is the clock at its scheduling plus
\* its delay, and every drain returns the due events in non-decreasing
\* fire time order.
\* ----------------------------------------------------------------------
QueueStaysSorted ==
    /\ [](\A i, j \in 1..Len(scheduled_events) :
             i < j => scheduled_events[i].time <= scheduled_events[j].time)
    /\ [][Len(scheduled_events') > Len(scheduled_events) =>
             \E i \in 1..Len(scheduled_events') :
                /\ scheduled_events'[i].time - current_time \in 0..MaxDelay
                /\ scheduled_events =
                      SubSeq(scheduled_events', 1, i - 1)
                         \o SubSeq(scheduled_events', i + 1,
                                   Len(scheduled_events'))]_vars
    /\ [](drain.calls = 1 =>
             in_fire_time_order(drain.before, drain.now, drain.returned))
    /\ [][current_time' = current_time + 1 =>
             in_fire_time_order(
                 scheduled_events, current_time',
                 process_scheduled_events(scheduled_events,
                                          current_time').events_to_process)]_vars

\* A queue of two entries of different fire times after a drain that
\* returned two events.
QueueStaysSortedWitness ==
    /\ drain.calls = 1
    /\ Len(drain.returned) = 2
    /\ drain.returned[1] # drain.returned[2]
    /\ Len(scheduled_events) = 2
    /\ scheduled_events[1].time < scheduled_events[2].time
    /\ scheduled_events[1].event # scheduled_events[2].event

\* ----------------------------------------------------------------------
\* C22: after remember_thought(t) for an agent, get_recent_memories with a
\* limit of at least 1 for the same agent returns t as its first, most
\* recent entry, get_memory_summary counts it, the memories of other
\* agents are unchanged, and none of these calls raises.
\* ----------------------------------------------------------------------
ThoughtIsRecalledFirst ==
    /\ [][(recall'.op = "remember_thought" /\ memory_store' # memory_store)
             =>
             LET mine == memory_store'.memories[recall'.agent_id]
             IN /\ ~recall'.raised
                /\ mine[Len(mine)].content = recall'.content
                /\ mine[Len(mine)].id = recall'.memory_id
                /\ \A other \in DOMAIN memory_store.memories :
                      other # recall'.agent_id =>
                         memory_store'.memories[other]
                            = memory_store.memories[other]]_vars
    /\ [][(/\ recall.op = "remember_thought"
           /\ recall'.op = "get_recent_memories"
           /\ recall'.agent_id = recall.agent_id
           /\ recall'.limit >= 1) =>
             /\ ~recall'.raised
             /\ recall'.returned # <<>>
             /\ Len(recall'.returned) <= recall'.limit
             /\ recall'.returned[1].content = recall.content
             /\ recall'.returned[1].id = recall.memory_id
             /\ memory_store' = memory_store]_vars
    /\ [][(/\ recall.op = "remember_thought"
           /\ recall'.op = "get_memory_summary"
           /\ recall'.agent_id = recall.agent_id) =>
             LET mine == memory_store.memories[recall.agent_id]
                 thoughts == {i \in 1..Len(mine) :
                                 mine[i].metadata.type = "thought"}
             IN /\ ~recall'.raised
                /\ recall'.summary.total_memories = Len(mine)
                /\ Len(mine) \in thoughts
                /\ recall'.summary.memory_types["thought"]
                      = Cardinality(thoughts)
                /\ memory_store' = memory_store]_vars

\* The thought an agent with a full store remembered last, after other
\* memories of the two agents, has come back first from a read of two.
ThoughtIsRecalledFirstWitness ==
    /\ recall.op = "get_recent_memories"
    /\ recall.limit = 2
    /\ Len(recall.returned) = 2
    /\ recall.returned[1].id = <<"n1", memory_store.memory_counter>>
    /\ recall.returned[1].content = "t2"
    /\ recall.returned[2].content # "t2"
    /\ Len(memory_store.memories["n1"]) = StoreCap
    /\ memory_store.memory_counter > StoreCap + 1
    /\ Len(memory_store.memories["n2"]) > 1

\* ----------------------------------------------------------------------
\* C23: every scheduled event is handed to process_event, and so appended
\* to events_this_step, exactly once, in the first step whose phase 1 runs
\* with a clock at or past its fire time: an entry leaves the queue only in
\* phase 1 of a step, as a due entry, and joins events_this_step there; in
\* particular the advance_time call that ends a step removes none.
\* ----------------------------------------------------------------------
ScheduledEventsAreProcessed ==
    [][Len(scheduled_events') < Len(scheduled_events) =>
          /\ pc = "events"
          /\ \A i \in 1..Len(scheduled_events) :
                scheduled_events[i].time > current_time =>
                   \E j \in 1..Len(scheduled_events') :
                      scheduled_events'[j] = scheduled_events[i]
          /\ Len(events_this_step') - Len(events_this_step)
                = Len(scheduled_events) - Len(scheduled_events')]_vars

\* C24: the analysis leaves stagnation_score at min(1, steps / 10), steps
\* being the steps since the last narrator event the analysis has counted,
\* when no agent interacted within the last 3 steps and steps is at least
\* 5, so at 5/10 when steps is exactly 5, and at 0 in every other case.
StagnationFromFiveSteps ==
    [][pc = "narrator" =>
          LET steps == narrator.steps_since_last_event + 1
              nobody_lately ==
                  \A a \in DOMAIN agents :
                      \/ agents[a].last_interaction_time = NoTime
                      \/ current_step - agents[a].last_interaction_time >= 3
              score == narrator'.stagnation_score
          IN IF nobody_lately /\ steps >= 5
             THEN score.num * 10 = Min(steps, 10) * score.den
             ELSE score.num = 0]_vars

\* C25: in the chapter decision the character-development signal and the
\* relationship-change signal are raised only by a key moment, or a
\* significant moment of a pair, of the chapter in progress, that is one
\* at or after its start_step: the ending score of a chapter of 8 to 24
\* interactions is the sum its signals give with these two taken from the
\* chapter's own moments.
OnlyThisChaptersMomentsCount ==
    [][pc = "chapter" =>
          LET count == current_chapter_content.interactions
              start_step == current_chapter_content.start_step
              development_this_chapter ==
                  \E c \in DOMAIN character_arcs :
                      \E m \in character_arcs[c].key_moments :
                          m.time >= start_step /\ m.significance > 60
              changes_this_chapter ==
                  \E k \in DOMAIN character_relationship_changes :
                      \E m \in character_relationship_changes[k]
                                   .significant_moments :
                          m.step >= start_step /\ m.significance > 50
          IN (count >= MinInteractions /\ count < MaxInteractions) =>
                chapter_decision'.ending_score =
                    float_sum(<<major_plot_point(current_chapter_content,
                                                 current_step),
                                emotional_climax(current_chapter_content,
                                                 current_step),
                                development_this_chapter,
                                changes_this_chapter,
                                conflict_resolution(current_chapter_content),
                                natural_pause(current_chapter_content)>>)]_vars

\* C26: when introduce_new_character has added an agent in a step, the
\* agent is in story_agents and in the current_agents of an existing
\* location that is its location field, it and every agent that was there
\* before hold entries of equal value for each other, and a
\* character_introduction event of the step has joined events_this_step;
\* the Overseer observes every event of the step in the same step.
NewCharacterJoinsTheWorld ==
    /\ [][Len(story_agents') > Len(story_agents) =>
             LET new == story_agents'[Len(story_agents')]
             IN /\ agents'[new].location \in locations
                /\ new \in current_agents'[agents'[new].location]
                /\ \A i \in 1..Len(story_agents) :
                      LET old == story_agents[i]
                      IN /\ agents'[old].name
                               \in DOMAIN agents'[new].relationships
                         /\ agents'[new].name
                               \in DOMAIN agents'[old].relationships
                         /\ agents'[new].relationships[agents'[old].name]
                               = agents'[old].relationships[agents'[new].name]
                /\ Len(events_this_step') = Len(events_this_step) + 1
                /\ events_this_step'[Len(events_this_step')].type
                      = "character_introduction"
                /\ events_this_step'[Len(events_this_step')].execution_time
                      = current_step]_vars
    /\ [][pc = "overseer" =>
             current_chapter_content'.events =
                 current_chapter_content.events + Len(events_this_step)]_vars

\* C27: in every step decide_action is called exactly once for each agent
\* that is a participant of no interaction recorded in the step and never
\* for an agent that is a participant of one; the action phase of the step
\* is the only place it is called from.
DecideActionOncePerIdleAgent ==
    /\ [][pc = "actions" =>
             \A i \in 1..Len(story_agents) :
                 LET a == story_agents[i]
                     participant ==
                         \E k \in 1..Len(interactions_this_step) :
                             \E j \in 1..Len(interactions_this_step[k]
                                                 .participants) :
                                 interactions_this_step[k].participants[j]
                                     = agents[a].name
                     calls == Cardinality({j \in 1..Len(actions_decided') :
                                              actions_decided'[j] = a})
                 IN calls = IF participant THEN 0 ELSE 1]_vars
    /\ [][pc # "actions" => actions_decided' = actions_decided]_vars

\* The action phase of a step in which two of three agents interacted has
\* called decide_action for the third agent only.
DecideActionOncePerIdleAgentWitness ==
    /\ Len(phase_log) > 0
    /\ phase_log[Len(phase_log)] = "actions"
    /\ Len(story_agents) = 3
    /\ Len(interactions_this_step) = 1
    /\ actions_decided = <<3>>

\* C28: in every step the state update applies update_emotional_state once
\* to every agent, whether it interacted or not: the agent's energy goes
\* down by 0.05, one twentieth, and may then be restored by 0.3, six
\* twentieths; every agent's energy_level is within [0, 1] in every state.
EnergyDecaysEveryStep ==
    /\ [][pc = "update" =>
             \A i \in 1..Len(story_agents) :
                 LET a == story_agents[i]
                     lowered == Max(0, agents[a].energy_level - 1)
                 IN agents'[a].energy_level
                        \in {lowered, Min(FullEnergy, lowered + 6)}]_vars
    /\ [](\A a \in DOMAIN agents :
             agents[a].energy_level \in 0..FullEnergy)

\* C29: a failure of the world's bookkeeping is not swallowed: when an
\* agent is to be placed at a location the world does not have, the
\* operation fails, which ends the step and the run with an error, and the
\* agent does not stay in story_agents; no agent of story_agents has a
\* location field that names no location of the world.
PlacementFailurePropagates ==
    /\ [][(pc = "introduction" /\ moved' # moved /\ ~moved'.result) =>
             /\ pc' = "finished"
             /\ run_outcome' = "error"
             /\ story_agents' = story_agents]_vars
    /\ [](\A i \in 1..Len(story_agents) :
             agents[story_agents[i]].location \in locations)

\* C30: get_nearby_locations(name, max_distance) returns exactly the
\* locations whose distance from name in the graph is between 1 and
\* max_distance; the origin is never among them, and nothing is returned
\* for a name the world does not have or for max_distance 0.
NearbyIsWithinDistance ==
    nearby_query.asked =>
        LET origin == nearby_query.location_name
        IN /\ nearby_query.answer =
                 IF origin \notin locations THEN {}
                 ELSE {l \in locations :
                          Distance(location_graph, origin, l)
                              \in 1..nearby_query.max_distance}
           /\ origin \notin nearby_query.answer
           /\ (origin \notin locations \/ nearby_query.max_distance = 0)
                 => nearby_query.answer = {}

\* On the line A - B - C - D the locations within two steps of A are B
\* and C.
NearbyIsWithinDistanceWitness ==
    /\ location_graph = [l \in Locs |->
                            IF l = "A" THEN <<"B">>
                            ELSE IF l = "B" THEN <<"A", "C">>
                            ELSE IF l = "C" THEN <<"B", "D">>
                            ELSE <<"C">>]
    /\ nearby_query.asked
    /\ nearby_query.location_name = "A"
    /\ nearby_query.max_distance = 2
    /\ nearby_query.answer = {"B", "C"}

\* C31: an interaction recorded in a step raises interaction_count by one
\* for both of its participants and sets their last_interaction_time to the
\* step, so the count of an agent is the number of the records it is a
\* participant of and its time the step of the latest; a visit of the
\* pairing that records no interaction, an attempt that failed and was
\* skipped included, leaves the count, the time and the relationship scores
\* of every agent as they were.
InteractionCountMatchesRecords ==
    [][pc = "pairing" =>
          IF Len(interactions_this_step') > Len(interactions_this_step)
          THEN LET record ==
                       interactions_this_step'[Len(interactions_this_step')]
               IN \A a \in DOMAIN agents :
                     IF InSeq(agents[a].name, record.participants)
                     THEN /\ agents'[a].interaction_count =
                                 agents[a].interaction_count + 1
                          /\ agents'[a].last_interaction_time = record.time
                     ELSE /\ agents'[a].interaction_count =
                                 agents[a].interaction_count
                          /\ agents'[a].last_interaction_time =
                                 agents[a].last_interaction_time
          ELSE \A a \in DOMAIN agents :
                  /\ agents'[a].interaction_count = agents[a].interaction_count
                  /\ agents'[a].last_interaction_time =
                         agents[a].last_interaction_time
                  /\ agents'[a].relationships = agents[a].relationships]_vars

\* C32: closing a chapter never aborts the step: whenever the chapter check
\* decides to close, the forced close at 25 interactions included, the
\* step writes the chapter without an error and goes on to its ending
\* check.
ChapterCloseNeverAborts ==
    [][(pc = "chapter" /\ chapter_decision'.should_end) =>
          /\ Len(chapters') = Len(chapters) + 1
          /\ run_outcome' = run_outcome
          /\ pc' = "ending"]_vars

\* C33: while the chapter in progress holds no interaction and no event,
\* synthesize_chapter writes no chapter and changes nothing: chapters, the
\* current chapter number and the start_step of the content stay as they
\* are; in every state the current chapter number is len(chapters) + 1.
EmptyChapterIsNotWritten ==
    /\ [][(current_chapter_content.interactions = 0
           /\ current_chapter_content.events = 0) =>
             /\ chapters' = chapters
             /\ story_metadata'.current_chapter =
                    story_metadata.current_chapter
             /\ current_chapter_content'.start_step =
                    current_chapter_content.start_step]_vars
    /\ [](story_metadata.current_chapter = Len(chapters) + 1)

\* A chapter was written at step 1 and the second chapter, begun there, is
\* still empty at step 2, where synthesize_chapter may be called again.
EmptyChapterIsNotWrittenWitness ==
    /\ Len(chapters) = 1
    /\ chapters[1].end_step = 1
    /\ story_metadata.current_chapter = 2
    /\ current_chapter_content.interactions = 0
    /\ current_chapter_content.events = 0
    /\ current_chapter_content.start_step = 1
    /\ current_step = 2

\* C34: relationships are symmetric: for every pair of agents A and B of
\* the story, A.relationships holds a score for B exactly when
\* B.relationships holds one for A, and the two scores are equal.
RelationshipsAreSymmetric ==
    \A i, j \in 1..Len(story_agents) :
        LET a == agents[story_agents[i]]
            b == agents[story_agents[j]]
        IN i # j =>
              /\ (b.name \in DOMAIN a.relationships
                    <=> a.name \in DOMAIN b.relationships)
              /\ b.name \in DOMAIN a.relationships =>
                    a.relationships[b.name] = b.relationships[a.name]

\* C35: the names of the agents of story_agents are pairwise different in
\* every state: introduce_new_character adds no agent that bears the name
\* of an agent of the story.
AgentNamesAreUnique ==
    \A i, j \in 1..Len(story_agents) :
        i # j => agents[story_agents[i]].name # agents[story_agents[j]].name

\* C36: every record created during step s carries s: the time of each
\* interaction of the step, and the execution_time of each narrator event
\* and each character_introduction event of the step, equal current_step.
RecordsCarryTheirStep ==
    /\ \A i \in 1..Len(interactions_this_step) :
          interactions_this_step[i].time = current_step
    /\ \A i \in 1..Len(events_this_step) :
          \* an event scheduled beforehand was created in no step
          events_this_step[i].execution_time # NoTime =>
              events_this_step[i].execution_time = current_step

\* C37: after any add_location and connect_locations(a, b) calls the
\* adjacency is symmetric, holds no location twice in a list, and
\* location_graph[x] equals the connected_locations of location x.
AdjacencyIsSymmetric ==
    /\ \A a \in locations, b \in locations :
          InSeq(b, location_graph[a]) <=> InSeq(a, location_graph[b])
    /\ \A a \in locations :
          \A i, j \in 1..Len(location_graph[a]) :
              i # j => location_graph[a][i] # location_graph[a][j]
    /\ \A a \in locations : location_graph[a] = connected_locations[a]

\* C38: the Overseer's phase adds to the current chapter one plot point
\* for each interaction of the step whose significance is above 0.7,
\* however many participants it has, and one for each major event.
OnePlotPointPerInteraction ==
    [][pc = "overseer" =>
          Len(current_chapter_content'.plot_points)
              - Len(current_chapter_content.plot_points)
          = Cardinality({i \in 1..Len(interactions_this_step) :
                LET significance == analyze_interaction_significance(
                                        interactions_this_step[i])
                IN /\ significance.is_significant
                   /\ significance.significance_score > 70})
            + Cardinality({i \in 1..Len(events_this_step) :
                  analyze_event_significance(events_this_step[i]).is_major})
      ]_vars

\* C39: the world's logs agree with the Overseer's: each interaction the
\* step records joins the world's interaction_history, each narrator event
\* and each character_introduction event joins the world's event_history,
\* the logs only grow, and between two steps the length of
\* interaction_history is the Overseer's total of interactions.
WorldLogsAgreeWithOverseer ==
    /\ [][Len(interactions_this_step') > Len(interactions_this_step) =>
             Len(interaction_history') = Len(interaction_history) + 1]_vars
    /\ [][(pc \in {"narrator", "introduction"}
           /\ Len(events_this_step') > Len(events_this_step)) =>
             Len(event_history') = Len(event_history) + 1]_vars
    /\ [][/\ Len(interaction_history') >= Len(interaction_history)
          /\ SubSeq(interaction_history', 1, Len(interaction_history))
                = interaction_history
          /\ Len(event_history') >= Len(event_history)
          /\ SubSeq(event_history', 1, Len(event_history))
                = event_history]_vars
    /\ [](pc = "loop" =>
             Len(interaction_history) = story_metadata.total_interactions)

====
